---- MODULE Spec2Model ----
(***************************************************************************)
(* Model of the accountability engine of src/mcp_productivity_assistant.py *)
(* (the "Productivity Enforcer" MCP server): one JSON document on disk,    *)
(* the wall-clock date, and the tool handlers that load, change and save   *)
(* the document.                                                           *)
(*                                                                         *)
(* Numbers.  Every rate or score the code keeps as a float rounded to two  *)
(* decimals is kept here as an integer number of hundredths (0.75 is 75).  *)
(*                                                                         *)
(* Date strings.  The code compares date STRINGS (date < today_str) and    *)
(* parses them with strptime(.., "%Y-%m-%d").  A date string is modelled   *)
(* as an integer whose order is the order of the strings:                  *)
(*   Day(n)   = 2n    the ISO string of calendar day n                     *)
(*   Range(n) = 2n+1  the string "<day n> to <a later day>", the form the  *)
(*                    report docstring asks for; it sorts after Day(n),    *)
(*                    before Day(n+1), and strptime rejects it.            *)
(***************************************************************************)
EXTENDS Integers, Sequences, FiniteSets, TLC

VARIABLES today, file, ret

vars == <<today, file, ret>>

(* ---------------------------- bounds ----------------------------------- *)
\* The last calendar day the clock reaches (days are 0..MaxDay).
MaxDay == 2
\* The most entries holidays_log and absence_log hold together.
MaxLog == 1
\* The highest consecutive_high_intensity_days a plan may produce.
MaxIntensity == 1
\* The highest skip_count a report may produce.
MaxSkips == 1
\* The most dates reports holds.
MaxReports == 1
\* The most tasks a plan of SpecRate holds.
MaxTasks == 4
\* The highest consecutive_high_intensity_days a document of SpecBurnout has.
MaxStreak == 5
\* The highest absence_counter a document of SpecBurnout has.
MaxAbsence == 3
\* The highest skip_count a report of SpecSkips may produce.
MaxSkipCount == 4
\* The last day the clock of SpecAdvice shows.
MaxGap == 5
\* The log entries, and the skips of one key, that SpecHistory lets pile up.
MaxHistory == 2

(* ---------------------------- date strings ----------------------------- *)
Day(n) == 2 * n
Range(n) == 2 * n + 1
IsDate(s) == s % 2 = 0
ToDay(s) == s \div 2

Days == 0..MaxDay
DateStrs == {Day(n) : n \in Days} \cup {Range(0)}

(* ---------------------------- small helpers ---------------------------- *)
Max(a, b) == IF a >= b THEN a ELSE b

SetMin(S) == CHOOSE x \in S : \A y \in S : x <= y

EmptyMap == [k \in {} |-> 0]

\* num / den cut to an integer instead of rounded.
RoundFloor(num, den) == num \div den

\* round(num / den) to the nearest integer, ties to the even neighbour:
\* what Python's round(x, 2) gives when x * 100 is exactly num / den and the
\* tie is exactly representable (the cases the bounds produce).
RoundHalfEven(num, den) ==
    LET q == num \div den
        r == num % den
    IN  IF 2 * r > den THEN q + 1
        ELSE IF 2 * r < den THEN q
        ELSE IF q % 2 = 0 THEN q ELSE q + 1

(* ---------------------------- the document ------------------------------ *)
\* _get_default_data(): the document written when the file is missing.
\* last_task_date is the day the default is created.
get_default_data(now) ==
    [plan |-> EmptyMap,
     reports |-> EmptyMap,
     long_term_tasks |-> "none",
     analytics |->
        [problem_tasks |-> EmptyMap,
         completion_trends |-> [last_7_days |-> 0, last_30_days |-> 0],
         dedication_percentage |-> 70,
         absence_counter |-> 0,
         last_task_date |-> Day(now),
         semester_phase |-> "N/A",
         consecutive_high_intensity_days |-> 0,
         burnout_risk |-> "low",
         absence_log |-> <<>>,
         holidays_log |-> <<>>]]

\* m[k] = v added to (or replaced in) the mapping m.
MapPut(m, k, v) == [x \in (DOMAIN m) \cup {k} |-> IF x = k THEN v ELSE m[x]]

(* ---------------------------- recent reports --------------------------- *)
\* _get_recent_reports(data, days): the dates of the reports it returns.  A
\* key that strptime rejects is skipped; the test is (today - d).days < days.
get_recent_reports(data, days, now) ==
    {d \in DOMAIN data.reports : IsDate(d) /\ now - ToDay(d) < days}

RECURSIVE SumRates(_, _)
SumRates(reports, S) ==
    IF S = {} THEN 0
    ELSE LET d == CHOOSE x \in S : TRUE
         IN  reports[d].completion_rate + SumRates(reports, S \ {d})

\* round(sum(r["completion_rate"]) / len(rs), 2) if rs else 0.0
MeanRate(data, days, now) ==
    LET S == get_recent_reports(data, days, now)
    IN  IF S = {} THEN 0
        ELSE RoundHalfEven(SumRates(data.reports, S), Cardinality(S))

(* ---------------------------- analytics -------------------------------- *)
\* _update_absence_counter() raises ValueError when last_task_date is set
\* but strptime rejects it.  None and "" (Unset) make it return early.
Unset == -1

absence_counter_raises(disk) ==
    /\ disk.analytics.last_task_date # Unset
    /\ ~IsDate(disk.analytics.last_task_date)

\* _update_absence_counter(): it loads the document from DISK, sets
\* absence_counter there and saves it; the caller's in-memory copy is not
\* touched.  The result is the document on disk afterwards.
update_absence_counter(disk, now) ==
    IF disk.analytics.last_task_date = Unset THEN disk
    ELSE LET delta == now - ToDay(disk.analytics.last_task_date)
         IN  [disk EXCEPT !.analytics.absence_counter = Max(0, delta - 1)]

\* Exact ties of the dedication sum (value ending in ...5 thousandths) that
\* the float computation of line 106-111 rounds UP; every other tie rounds
\* down.  Keys are <<m, c, i>>: m the 14-day mean in hundredths (odd at a
\* tie), c = 5 * consistency_score, i = 4 * intensity_factor.  Tabulated by
\* evaluating the Python expression for the means the task lists below
\* can produce.
DedicationTieUp ==
    {<<25, 0, 2>>, <<25, 0, 3>>, <<25, 0, 4>>, <<25, 1, 2>>, <<25, 1, 3>>,
     <<25, 1, 4>>, <<25, 2, 3>>, <<25, 3, 2>>, <<25, 3, 3>>, <<25, 3, 4>>,
     <<25, 4, 3>>, <<25, 5, 2>>, <<33, 0, 0>>, <<33, 0, 1>>, <<33, 0, 2>>,
     <<33, 0, 3>>, <<33, 1, 3>>, <<33, 2, 2>>, <<33, 4, 0>>, <<33, 4, 1>>,
     <<33, 4, 2>>, <<33, 4, 3>>, <<33, 5, 1>>, <<33, 5, 4>>, <<67, 0, 0>>,
     <<67, 0, 1>>, <<67, 0, 2>>, <<67, 0, 3>>, <<67, 0, 4>>, <<67, 1, 0>>,
     <<67, 1, 1>>, <<67, 1, 3>>, <<67, 2, 1>>, <<67, 2, 4>>, <<67, 3, 0>>,
     <<67, 3, 1>>, <<67, 3, 3>>, <<67, 3, 4>>, <<67, 5, 0>>, <<67, 5, 1>>,
     <<67, 5, 3>>, <<75, 0, 0>>, <<75, 0, 3>>, <<75, 1, 2>>, <<75, 1, 4>>,
     <<75, 2, 1>>, <<75, 2, 3>>, <<75, 2, 4>>, <<75, 4, 1>>, <<75, 4, 3>>,
     <<75, 5, 0>>, <<75, 5, 1>>, <<75, 5, 2>>, <<75, 5, 3>>, <<75, 5, 4>>,
     <<125, 0, 1>>, <<125, 0, 3>>, <<125, 1, 4>>, <<125, 2, 1>>,
     <<125, 2, 3>>, <<125, 2, 4>>, <<125, 4, 1>>, <<125, 4, 3>>,
     <<125, 5, 0>>, <<125, 5, 1>>, <<125, 5, 2>>, <<125, 5, 3>>,
     <<133, 0, 0>>, <<133, 0, 1>>, <<133, 0, 2>>, <<133, 0, 3>>,
     <<133, 1, 1>>, <<133, 1, 3>>, <<133, 1, 4>>, <<133, 2, 0>>,
     <<133, 2, 1>>, <<133, 2, 2>>, <<133, 2, 3>>, <<133, 2, 4>>,
     <<133, 3, 1>>, <<133, 4, 0>>, <<133, 4, 1>>, <<133, 4, 2>>,
     <<133, 4, 3>>, <<133, 5, 0>>, <<133, 5, 1>>, <<133, 5, 2>>,
     <<133, 5, 3>>, <<133, 5, 4>>, <<167, 0, 1>>, <<167, 2, 4>>,
     <<167, 3, 3>>, <<167, 4, 2>>, <<167, 4, 3>>, <<167, 5, 0>>,
     <<167, 5, 1>>, <<167, 5, 2>>, <<167, 5, 3>>, <<175, 0, 0>>,
     <<175, 0, 1>>, <<175, 1, 4>>, <<175, 2, 3>>, <<175, 2, 4>>,
     <<175, 3, 2>>, <<175, 3, 3>>, <<175, 4, 1>>, <<175, 4, 2>>,
     <<175, 4, 3>>, <<175, 5, 0>>, <<175, 5, 1>>, <<175, 5, 2>>,
     <<175, 5, 3>>, <<175, 5, 4>>}

\* _calculate_dedication_percentage(data), in hundredths.
calculate_dedication_percentage(data, now) ==
    LET S == get_recent_reports(data, 14, now)
        k == Cardinality(S)
        sum == SumRates(data.reports, S)
        a == data.analytics
        c == Max(0, 5 - a.absence_counter)
        h == a.consecutive_high_intensity_days
        i == IF h <= 3 THEN 4 ELSE Max(0, 4 - (h - 3))
        fixed == 6 * c + 5 * i
    IN  IF k = 0 THEN fixed
        ELSE LET q == sum \div (2 * k)
                 r == sum % (2 * k)
             IN  IF r > k THEN fixed + q + 1
                 ELSE IF r < k THEN fixed + q
                 ELSE IF <<sum \div k, c, i>> \in DedicationTieUp
                      THEN fixed + q + 1
                      ELSE fixed + q

\* risk_score in which a long absence lowers the score.
risk_score_relief(a) ==
    LET h == a.consecutive_high_intensity_days
    IN  (IF h >= 3 THEN 30 ELSE 0)
      + (IF h >= 5 THEN 20 ELSE 0)
      + (IF a.completion_trends.last_7_days < 60 THEN 20 ELSE 0)
      + (IF a.dedication_percentage < 50 THEN 10 ELSE 0)
      + (IF a.semester_phase \in {"mid_semester", "late_semester"} THEN 15 ELSE 0)
      + (IF a.semester_phase = "finals_period" THEN 25 ELSE 0)
      - (IF a.absence_counter > 2 THEN 30 ELSE 0)

\* risk_score of _calculate_burnout_risk, in hundredths, as exact decimals.
risk_score(a) ==
    LET h == a.consecutive_high_intensity_days
    IN  (IF h >= 3 THEN 30 ELSE 0)
      + (IF h >= 5 THEN 20 ELSE 0)
      + (IF a.completion_trends.last_7_days < 60 THEN 20 ELSE 0)
      + (IF a.dedication_percentage < 50 THEN 10 ELSE 0)
      + (IF a.semester_phase \in {"mid_semester", "late_semester"} THEN 15 ELSE 0)
      + (IF a.semester_phase = "finals_period" THEN 25 ELSE 0)
      + (IF a.absence_counter > 2 THEN 10 ELSE 0)

\* The float sum 0.3 + 0.2 + 0.2 + 0.1 is 0.7999999999999999: the two
\* combinations that add exactly these four terms fall short of 0.8.
float_short_of_80(a) ==
    /\ a.consecutive_high_intensity_days >= 5
    /\ a.completion_trends.last_7_days < 60
    /\ a.semester_phase \notin {"mid_semester", "late_semester", "finals_period"}
    /\ (a.dedication_percentage < 50) # (a.absence_counter > 2)

\* _calculate_burnout_risk(data)
calculate_burnout_risk(data) ==
    LET a == data.analytics
        s == risk_score(a)
    IN  IF s >= 80 /\ ~float_short_of_80(a) THEN "critical"
        ELSE IF s >= 60 THEN "high"
        ELSE IF s >= 40 THEN "medium"
        ELSE "low"

\* _update_full_analytics(data) on the caller's in-memory document, once
\* update_full_analytics that also ends the streak of intense days.
update_full_analytics_rests(data, now) ==
    LET d1 == [data EXCEPT !.analytics.completion_trends =
                  [last_7_days |-> MeanRate(data, 7, now),
                   last_30_days |-> MeanRate(data, 30, now)],
                           !.analytics.consecutive_high_intensity_days = 0]
        d2 == [d1 EXCEPT !.analytics.dedication_percentage =
                  calculate_dedication_percentage(d1, now)]
    IN  [d2 EXCEPT !.analytics.burnout_risk = calculate_burnout_risk(d2)]

\* _update_absence_counter() has returned: trends, then dedication, then
\* burnout risk, each reading the fields set before it.
update_full_analytics(data, now) ==
    LET d1 == [data EXCEPT !.analytics.completion_trends =
                  [last_7_days |-> MeanRate(data, 7, now),
                   last_30_days |-> MeanRate(data, 30, now)]]
        d2 == [d1 EXCEPT !.analytics.dedication_percentage =
                  calculate_dedication_percentage(d1, now)]
    IN  [d2 EXCEPT !.analytics.burnout_risk = calculate_burnout_risk(d2)]

\* _recommend_rest_or_light_day(data): strptime of the last holiday's date
\* raises ValueError when it is not a calendar date.
recommend_raises(data) ==
    LET log == data.analytics.holidays_log
    IN  log # <<>> /\ ~IsDate(log[Len(log)].date)

\* _recommend_rest_or_light_day without the override of a recent holiday.
recommend_without_override(data, now) ==
    LET a == data.analytics
    IN  IF a.burnout_risk = "critical" THEN "MANDATORY_REST"
        ELSE IF a.burnout_risk = "high" THEN "RECOMMENDED_REST"
        ELSE IF a.burnout_risk = "medium"
                \/ a.consecutive_high_intensity_days >= 3
            THEN "RECOMMENDED_LIGHT_DAY"
        ELSE "PROCEED_NORMALLY"

recommend_rest_or_light_day(data, now) ==
    LET a == data.analytics
        log == a.holidays_log
    IN  IF log # <<>> /\ now - ToDay(log[Len(log)].date) <= 2
            THEN "PROCEED_NORMALLY"
        ELSE IF a.burnout_risk = "critical" THEN "MANDATORY_REST"
        ELSE IF a.burnout_risk = "high" THEN "RECOMMENDED_REST"
        ELSE IF a.burnout_risk = "medium"
                \/ a.consecutive_high_intensity_days >= 3
            THEN "RECOMMENDED_LIGHT_DAY"
        ELSE "PROCEED_NORMALLY"

(* ---------------------------- results ---------------------------------- *)
\* ret is what the last tool call gave back: the tool, the "status" of its JSON
\* result ("error" for an {"error": ..} result, "ValueError" when the handler
\* raised instead of returning) and the other fields of the result.  It is
\* cleared when the day changes.
Result(op, status, out) == [op |-> op, status |-> status, out |-> out]

Raised(op) == Result(op, "ValueError", "none")

(* ---------------------------- readiness gate --------------------------- *)
\* unreported_dates without the test "date not in data['reports']".
unreported_dates_any(data, now) ==
    {d \in DOMAIN data.plan : d < Day(now)}

\* The dates check_readiness_for_planning() finds blocking.
unreported_dates(data, now) ==
    {d \in DOMAIN data.plan : d \notin DOMAIN data.reports /\ d < Day(now)}

\* The canned comment of the ALREADY_REPORTED branch.
comment_for(completion) ==
    IF completion >= 90 THEN "Excellent work! See you tomorrow."
    ELSE IF completion >= 75 THEN "Good job, see you tomorrow."
    ELSE IF completion >= 50 THEN "Decent effort, see you tomorrow."
    ELSE "Try to improve tomorrow."

\* check_readiness_for_planning(): the value it returns for the document
\* data loaded from disk, on day now.
check_readiness_for_planning(data, now) ==
    LET op == "check_readiness_for_planning"
        unreported == unreported_dates(data, now)
    IN  IF unreported # {}
        THEN LET earliest == SetMin(unreported)
             IN  Result(op, "BLOCKED",
                        [unreported_date |-> earliest,
                         tasks |-> data.plan[earliest].tasks])
        ELSE IF Day(now) \in DOMAIN data.plan
        THEN Result(op, "PLAN_EXIST",
                    [plan |-> data.plan,
                     semester_phase |-> data.analytics.semester_phase])
        ELSE IF Day(now) \in DOMAIN data.reports
        THEN Result(op, "ALREADY_REPORTED",
                    [report |-> data.reports[Day(now)],
                     comment |-> comment_for(data.reports[Day(now)].completion_rate)])
        ELSE IF absence_counter_raises(data) THEN Raised(op)
        ELSE LET mem == update_full_analytics(data, now)
             IN  IF recommend_raises(mem) THEN Raised(op)
                 ELSE Result(op, "READY",
                        [rest_or_light_day |-> recommend_rest_or_light_day(mem, now),
                         long_term_tasks |-> mem.long_term_tasks,
                         semester_phase |-> mem.analytics.semester_phase,
                         absence_counter |-> mem.analytics.absence_counter])

\* check_readiness_for_planning(): the document on disk after the call.  Only
\* the fourth branch reaches _update_full_analytics, whose first step saves.
check_readiness_saves(data, now) ==
    IF unreported_dates(data, now) # {} THEN data
    ELSE IF Day(now) \in DOMAIN data.plan THEN data
    ELSE IF Day(now) \in DOMAIN data.reports THEN data
    ELSE IF absence_counter_raises(data) THEN data
    ELSE update_absence_counter(data, now)

CheckReadiness ==
    /\ ret' = check_readiness_for_planning(file, today)
    /\ file' = check_readiness_saves(file, today)
    /\ UNCHANGED today

(* ---------------------------- get_analytics_context -------------------- *)
\* get_analytics_context(): load, _update_full_analytics, save the caller's
\* copy (over what _update_absence_counter just saved), return analytics.
get_analytics_context(data, now) ==
    IF absence_counter_raises(data) THEN Raised("get_analytics_context")
    ELSE Result("get_analytics_context", "ok",
                update_full_analytics(data, now).analytics)

\* get_analytics_context(): the document on disk after the call.
get_analytics_context_saves(data, now) ==
    IF absence_counter_raises(data) THEN data
    ELSE update_full_analytics(data, now)

GetAnalyticsContext ==
    /\ ret' = get_analytics_context(file, today)
    /\ file' = get_analytics_context_saves(file, today)
    /\ UNCHANGED today

(* ---------------------------- inputs ----------------------------------- *)
\* A task name is its sequence of space-separated words, so that
\* name.split(" ")[0] is name[1].
Task(name, time) == [name |-> name, estimated_time |-> time]

\* The plans a caller sets: no task on a hectic day, one short task, and
\* two tasks of six hours together (more than the 5 that make a day intense).
PlanInputs ==
    {[tasks |-> <<>>, context |-> "hectic"],
     [tasks |-> <<Task(<<"Math", "hw">>, 2)>>, context |-> "normal"],
     [tasks |-> <<Task(<<"Math", "hw">>, 2), Task(<<"Read">>, 4)>>,
      context |-> "normal"]}

\* A skipped entry without a "reason" key has reason NoReason.
NoReason == "<missing>"

\* The normal reports a caller files: one task done, two tasks done (more
\* than a one-task plan has), or one done and one skipped without a reason.
ReportInputs ==
    {[completed |-> <<"Math hw">>, skipped |-> <<>>],
     [completed |-> <<"Math hw", "Read">>, skipped |-> <<>>],
     [completed |-> <<"Math hw">>,
      skipped |-> <<[name |-> <<"Math", "hw">>, reason |-> NoReason]>>]}

\* The dates a caller logs a holiday or an absence for: the current day, or
\* a range of days as the docstring of report() asks.
LogDates(now) == {Day(now), Range(0)}


(* ---------------------------- report ----------------------------------- *)
\* The loop of report() over skipped: acc.pt is analytics["problem_tasks"],
\* acc.alerts is triggered_patterns.
\* The loop of report() with an alert only when a count REACHES 3.
RECURSIVE skip_loop_edge(_, _)
skip_loop_edge(skipped, acc) ==
    IF skipped = <<>> THEN acc
    ELSE LET task == Head(skipped)
             base == task.name[1]
             old == IF base \in DOMAIN acc.pt THEN acc.pt[base]
                    ELSE [skip_count |-> 0, skip_reasons |-> <<>>]
             new == [skip_count |-> old.skip_count + 1,
                     skip_reasons |-> Append(old.skip_reasons,
                         IF task.reason = NoReason THEN "unknown" ELSE task.reason)]
         IN  skip_loop_edge(Tail(skipped),
                 [pt |-> MapPut(acc.pt, base, new),
                  alerts |-> IF new.skip_count = 3
                             THEN Append(acc.alerts, base) ELSE acc.alerts])

RECURSIVE skip_loop(_, _)
skip_loop(skipped, acc) ==
    IF skipped = <<>> THEN acc
    ELSE LET task == Head(skipped)
             base == task.name[1]
             old == IF base \in DOMAIN acc.pt THEN acc.pt[base]
                    ELSE [skip_count |-> 0, skip_reasons |-> <<>>]
             new == [skip_count |-> old.skip_count + 1,
                     skip_reasons |-> Append(old.skip_reasons,
                         IF task.reason = NoReason THEN "unknown" ELSE task.reason)]
         IN  skip_loop(Tail(skipped),
                 [pt |-> MapPut(acc.pt, base, new),
                  alerts |-> IF new.skip_count >= 3
                             THEN Append(acc.alerts, base) ELSE acc.alerts])

\* The holiday and the absence branch of report().
log_entry(date, now) == [date |-> date, reason |-> "", logged_at |-> Day(now)]

\* report_holiday that also files an empty report for the date.
report_holiday_reports(data, date, now) ==
    [data EXCEPT !.analytics.holidays_log = Append(@, log_entry(date, now)),
                 !.analytics.consecutive_high_intensity_days = 0,
                 !.reports = MapPut(@, date,
                     [completed |-> <<>>, partial |-> <<>>, skipped |-> <<>>,
                      completion_rate |-> 0])]

report_holiday(data, date, now) ==
    [data EXCEPT !.analytics.holidays_log = Append(@, log_entry(date, now)),
                 !.analytics.consecutive_high_intensity_days = 0]

\* report_absence without the reset of consecutive_high_intensity_days.
report_absence_keeps(data, date, now) ==
    [data EXCEPT !.analytics.absence_log = Append(@, log_entry(date, now))]

\* report_absence that also files an empty report for the date.
report_absence_reports(data, date, now) ==
    [data EXCEPT !.analytics.absence_log = Append(@, log_entry(date, now)),
                 !.analytics.consecutive_high_intensity_days = 0,
                 !.reports = MapPut(@, date,
                     [completed |-> <<>>, partial |-> <<>>, skipped |-> <<>>,
                      completion_rate |-> 0])]

report_absence(data, date, now) ==
    [data EXCEPT !.analytics.absence_log = Append(@, log_entry(date, now)),
                 !.analytics.consecutive_high_intensity_days = 0]

\* report_stored that counts the skips of this report only, dropping the
\* problem_tasks counted before.
report_stored_resets(data, date, completed, partial, skipped) ==
    LET total_tasks == Len(data.plan[date].tasks)
        rate == IF total_tasks > 0
                THEN RoundHalfEven(100 * Len(completed), total_tasks) ELSE 0
    IN  [data EXCEPT !.reports = MapPut(@, date,
                        [completed |-> completed,
                         partial |-> partial,
                         skipped |-> skipped,
                         completion_rate |-> rate]),
                     !.analytics.problem_tasks =
                         skip_loop(skipped, [pt |-> EmptyMap, alerts |-> <<>>]).pt]

\* report_stored that counts the skips of the first report of a date only.
report_stored_first_only(data, date, completed, partial, skipped) ==
    LET total_tasks == Len(data.plan[date].tasks)
        rate == IF total_tasks > 0
                THEN RoundHalfEven(100 * Len(completed), total_tasks) ELSE 0
        loop == skip_loop(IF date \in DOMAIN data.reports THEN <<>> ELSE skipped,
                          [pt |-> data.analytics.problem_tasks, alerts |-> <<>>])
    IN  [data EXCEPT !.reports = MapPut(@, date,
                        [completed |-> completed,
                         partial |-> partial,
                         skipped |-> skipped,
                         completion_rate |-> rate]),
                     !.analytics.problem_tasks = loop.pt]

\* The normal branch of report() up to the call of _update_full_analytics:
\* the in-memory document with the report stored and the skips counted.
report_stored(data, date, completed, partial, skipped) ==
    LET total_tasks == Len(data.plan[date].tasks)
        rate == IF total_tasks > 0
                THEN RoundHalfEven(100 * Len(completed), total_tasks) ELSE 0
        loop == skip_loop(skipped, [pt |-> data.analytics.problem_tasks,
                                    alerts |-> <<>>])
    IN  [data EXCEPT !.reports = MapPut(@, date,
                        [completed |-> completed,
                         partial |-> partial,
                         skipped |-> skipped,
                         completion_rate |-> rate]),
                     !.analytics.problem_tasks = loop.pt]

triggered_patterns(data, skipped) ==
    skip_loop(skipped, [pt |-> data.analytics.problem_tasks, alerts |-> <<>>]).alerts

\* Skip counts stay within MaxSkips.
SkipsFit(data, skipped) ==
    LET pt == skip_loop(skipped, [pt |-> data.analytics.problem_tasks,
                                  alerts |-> <<>>]).pt
    IN  \A base \in DOMAIN pt : pt[base].skip_count <= MaxSkips

\* Skip counts stay within max.
SkipsWithin(data, skipped, max) ==
    LET pt == skip_loop(skipped, [pt |-> data.analytics.problem_tasks,
                                  alerts |-> <<>>]).pt
    IN  \A base \in DOMAIN pt : pt[base].skip_count <= max

\* The two logs stay within MaxLog.
LogFits(data) ==
    Len(data.analytics.holidays_log) + Len(data.analytics.absence_log) < MaxLog

\* report(): the value it returns.
report(data, now, date, completed, partial, skipped, was_absent, was_holiday) ==
    LET op == "report" IN
    IF was_holiday
    THEN Result(op, "Holiday logged successfully.", [date |-> date])
    ELSE IF was_absent
    THEN Result(op, "Absence logged successfully.", [date |-> date])
    ELSE IF date \notin DOMAIN data.plan
    THEN Result(op, "error", [date |-> date])
    ELSE IF absence_counter_raises(data) THEN Raised(op)
    ELSE LET mem == update_full_analytics(
                       report_stored(data, date, completed, partial, skipped), now)
         IN  Result(op, "Report logged successfully.",
                    [date |-> date,
                     new_dedication |-> mem.analytics.dedication_percentage,
                     triggered_patterns |-> triggered_patterns(data, skipped)])

\* report_saves that saves a normal report without recomputing analytics.
report_saves_raw(data, now, date, completed, partial, skipped, was_absent, was_holiday) ==
    IF was_holiday THEN report_holiday(data, date, now)
    ELSE IF was_absent THEN report_absence(data, date, now)
    ELSE IF date \notin DOMAIN data.plan THEN data
    ELSE IF absence_counter_raises(data) THEN data
    ELSE report_stored(data, date, completed, partial, skipped)

\* report_saves that files an empty report when the date has no plan.
report_saves_files(data, now, date, completed, partial, skipped, was_absent, was_holiday) ==
    IF was_holiday THEN report_holiday(data, date, now)
    ELSE IF was_absent THEN report_absence(data, date, now)
    ELSE IF date \notin DOMAIN data.plan
    THEN [data EXCEPT !.reports = MapPut(@, date,
                        [completed |-> completed, partial |-> partial,
                         skipped |-> skipped, completion_rate |-> 0])]
    ELSE IF absence_counter_raises(data) THEN data
    ELSE update_full_analytics(
             report_stored(data, date, completed, partial, skipped), now)

\* report(): the document on disk after the call.  In the normal branch the
\* caller's copy is saved over what _update_absence_counter saved; when that
\* raises, nothing was saved.
report_saves(data, now, date, completed, partial, skipped, was_absent, was_holiday) ==
    IF was_holiday THEN report_holiday(data, date, now)
    ELSE IF was_absent THEN report_absence(data, date, now)
    ELSE IF date \notin DOMAIN data.plan THEN data
    ELSE IF absence_counter_raises(data) THEN data
    ELSE update_full_analytics(
             report_stored(data, date, completed, partial, skipped), now)

\* One call of report(), whatever the document holds.
ReportCall(date, completed, partial, skipped, was_absent, was_holiday) ==
    /\ ret' = report(file, today, date, completed, partial, skipped,
                     was_absent, was_holiday)
    /\ file' = report_saves(file, today, date, completed, partial, skipped,
                            was_absent, was_holiday)
    /\ UNCHANGED today

\* The calls of report() that keep the document within the bounds.
Report(date, completed, partial, skipped, was_absent, was_holiday) ==
    /\ (was_holiday \/ was_absent) => LogFits(file)
    /\ (~was_holiday /\ ~was_absent /\ date \in DOMAIN file.plan) =>
          /\ SkipsFit(file, skipped)
          /\ Cardinality(DOMAIN file.reports \cup {date}) <= MaxReports
    /\ ReportCall(date, completed, partial, skipped, was_absent, was_holiday)

(* ---------------------------- set_daily_plan --------------------------- *)
RECURSIVE total_time(_)
total_time(tasks) ==
    IF tasks = <<>> THEN 0
    ELSE Head(tasks).estimated_time + total_time(Tail(tasks))

\* is_intense that counts a day of exactly 5 hours as intense.
is_intense_from_5(tasks, context) == context = "hectic" \/ total_time(tasks) >= 5

is_intense(tasks, context) == context = "hectic" \/ total_time(tasks) > 5

\* set_daily_plan that adds the plan to the mapping (data["plan"][date] = ..)
\* instead of replacing the mapping.
set_daily_plan_keeps(data, date, tasks, context, energy_level) ==
    LET plan_data == [tasks |-> tasks,
                      context |-> context,
                      energy_level |-> energy_level,
                      total_time |-> total_time(tasks)]
    IN  [data EXCEPT
            !.plan = MapPut(@, date, plan_data),
            !.analytics.last_task_date = date,
            !.analytics.absence_counter = 0,
            !.analytics.consecutive_high_intensity_days =
                IF is_intense(tasks, context) THEN @ + 1 ELSE 0]

\* set_daily_plan that starts a new history: the reports filed so far go.
set_daily_plan_forgets(data, date, tasks, context, energy_level) ==
    [set_daily_plan_keeps(data, date, tasks, context, energy_level) EXCEPT
        !.plan = [d \in {date} |-> @[date]],
        !.reports = EmptyMap]

\* set_daily_plan that counts an intense plan only when its date is not the
\* date of the plan it replaces.
set_daily_plan_new_date(data, date, tasks, context, energy_level) ==
    [set_daily_plan_keeps(data, date, tasks, context, energy_level) EXCEPT
        !.plan = [d \in {date} |-> @[date]],
        !.analytics.consecutive_high_intensity_days =
            IF ~is_intense(tasks, context) THEN 0
            ELSE IF date \in DOMAIN data.plan
            THEN data.analytics.consecutive_high_intensity_days
            ELSE data.analytics.consecutive_high_intensity_days + 1]

set_daily_plan(data, date, tasks, context, energy_level) ==
    LET plan_data == [tasks |-> tasks,
                      context |-> context,
                      energy_level |-> energy_level,
                      total_time |-> total_time(tasks)]
    IN  [data EXCEPT
            !.plan = [d \in {date} |-> plan_data],
            !.analytics.last_task_date = date,
            !.analytics.absence_counter = 0,
            !.analytics.consecutive_high_intensity_days =
                IF is_intense(tasks, context) THEN @ + 1 ELSE 0]

\* set_daily_plan(): the value it returns, the stored plan.
set_daily_plan_result(data, date, tasks, context, energy_level) ==
    Result("set_daily_plan", "ok",
           set_daily_plan(data, date, tasks, context, energy_level).plan[date])

\* One call of set_daily_plan(), whatever the document holds.
SetDailyPlanCall(date, tasks, context, energy_level) ==
    /\ file' = set_daily_plan(file, date, tasks, context, energy_level)
    /\ ret' = set_daily_plan_result(file, date, tasks, context, energy_level)
    /\ UNCHANGED today

\* The calls of set_daily_plan() that keep the streak within MaxIntensity.
SetDailyPlan(date, tasks, context, energy_level) ==
    /\ is_intense(tasks, context) =>
          file.analytics.consecutive_high_intensity_days < MaxIntensity
    /\ SetDailyPlanCall(date, tasks, context, energy_level)

(* ---------------------------- validate_day_off_request ----------------- *)
\* The score is 0.5 + (dedication - 0.7) * 0.5 + terms, clamped and rounded
\* to two decimals.  In exact arithmetic it is a tie (ends in ...5
\* thousandths) exactly when dedication is an odd number of hundredths; the
\* float sum then lands on one side.  ScoreTieUp gives the dedications (in
\* hundredths, up to 159) whose tie the Python expression of lines 574-609
\* rounds UP; every other tie rounds down.
ScoreTieUp(term, holiday, burnout) ==
    IF term = 0 /\ holiday = FALSE /\ burnout = FALSE
        THEN (1..17) \cup (21..39) \cup (45..55) \cup (59..67) \cup
             (71..81) \cup (97..111) \cup (121..137) \cup (145..159)
    ELSE IF term = 0 /\ holiday = FALSE /\ burnout = TRUE
        THEN (1..7) \cup (11..17) \cup (37..55) \cup (61..67) \cup
             (85..109)
    ELSE IF term = 0 /\ holiday = TRUE /\ burnout = FALSE
        THEN (51..55) \cup (63..67) \cup (77..81) \cup (101..111) \cup
             (125..137) \cup (151..159)
    ELSE IF term = 0 /\ holiday = TRUE /\ burnout = TRUE
        THEN (3..7) \cup {17} \cup (29..33) \cup (53..55) \cup
             (65..67) \cup (79..81) \cup (117..137)
    ELSE IF term = 20 /\ holiday = FALSE /\ burnout = FALSE
        THEN (1..39) \cup (57..81) \cup (105..129)
    ELSE IF term = 20 /\ holiday = FALSE /\ burnout = TRUE
        THEN (1..17) \cup (21..33) \cup (45..69)
    ELSE IF term = 20 /\ holiday = TRUE /\ burnout = FALSE
        THEN (11..17) \cup (23..33) \cup (37..39) \cup (61..81) \cup
             (111..137)
    ELSE IF term = 20 /\ holiday = TRUE /\ burnout = TRUE
        THEN (1..7) \cup (13..17) \cup (25..33) \cup {39} \cup
             (77..81) \cup (125..137)
    ELSE IF term = -20 /\ holiday = FALSE /\ burnout = FALSE
        THEN (11..17) \cup (23..33) \cup (37..39) \cup (49..55) \cup
             (61..67) \cup (73..81) \cup (99..111) \cup (137..159)
    ELSE IF term = -20 /\ holiday = FALSE /\ burnout = TRUE
        THEN (1..7) \cup (13..17) \cup (25..33) \cup {39} \cup
             (51..55) \cup (77..81) \cup (101..111) \cup (125..149)
    ELSE IF term = -20 /\ holiday = TRUE /\ burnout = FALSE
        THEN (103..111) \cup (141..159)
    ELSE IF term = -20 /\ holiday = TRUE /\ burnout = TRUE
        THEN (31..33) \cup {81} \cup (105..111) \cup (157..159)
    ELSE {}

phase_term(phase) ==
    IF phase \in {"mid_semester", "late_semester", "finals_period"} THEN 20
    ELSE IF phase = "early_semester" THEN -20
    ELSE IF phase = "semester_break" THEN 20
    ELSE 0

\* holiday_recent with the 2 days of _recommend_rest_or_light_day.
holiday_recent_2_days(a, now) ==
    LET log == a.holidays_log
    IN  log # <<>> /\ now - ToDay(log[Len(log)].date) <= 2

\* Whether validate_day_off_request() finds the last holiday within 4 days.
holiday_recent(a, now) ==
    LET log == a.holidays_log
    IN  log # <<>> /\ now - ToDay(log[Len(log)].date) <= 4

\* The rules of validate_day_off_request() that fired, in order.
score_reasons(a, now) ==
    <<"dedication">>
    \o (IF phase_term(a.semester_phase) # 0
        THEN <<a.semester_phase>> ELSE <<>>)
    \o (IF holiday_recent(a, now) THEN <<"recent_holiday">> ELSE <<>>)
    \o (IF a.burnout_risk \in {"high", "critical"} THEN <<"burnout">> ELSE <<>>)

\* permissibility_score of validate_day_off_request(), in hundredths.
permissibility_score(a, now) ==
    LET holiday == holiday_recent(a, now)
        burnout == a.burnout_risk \in {"high", "critical"}
        term == phase_term(a.semester_phase)
        \* twice the exact score, in hundredths
        s2 == 100 + (a.dedication_percentage - 70) + 2 * term
              - (IF holiday THEN 80 ELSE 0) + (IF burnout THEN 60 ELSE 0)
    IN  IF s2 <= 0 THEN 0
        ELSE IF s2 >= 200 THEN 100
        ELSE IF s2 % 2 = 0 THEN s2 \div 2
        ELSE IF a.dedication_percentage \in ScoreTieUp(term, holiday, burnout)
             THEN s2 \div 2 + 1
             ELSE s2 \div 2

\* validate_day_off_request(): the value it returns.  strptime of the last
\* holiday's date raises when it is not a calendar date.
validate_day_off_request(data, now) ==
    LET op == "validate_day_off_request" IN
    IF absence_counter_raises(data) THEN Raised(op)
    ELSE LET mem == update_full_analytics(data, now)
         IN  IF recommend_raises(mem) THEN Raised(op)
             ELSE Result(op, "ok",
                    [permissibility_score |->
                         permissibility_score(mem.analytics, now),
                     reasons |-> score_reasons(mem.analytics, now)])

\* validate_day_off_request(): the document on disk after the call.
\* _update_full_analytics saves the absence counter; the handler itself
\* saves nothing.
validate_day_off_request_saves(data, now) ==
    IF absence_counter_raises(data) THEN data
    ELSE update_absence_counter(data, now)

ValidateDayOffRequest ==
    /\ ret' = validate_day_off_request(file, today)
    /\ file' = validate_day_off_request_saves(file, today)
    /\ UNCHANGED today

(* ---------------------------- update_semester_phase -------------------- *)
\* valid_phases of update_semester_phase()
ValidPhases ==
    {"early_semester", "mid_semester", "late_semester", "finals_period",
     "semester_break"}

\* update_semester_phase that stores whatever phase it is given.
update_semester_phase_any(data, phase) ==
    [data EXCEPT !.analytics.semester_phase = phase]

\* update_semester_phase(phase): the document on disk after the call.
update_semester_phase_saves(data, phase) ==
    IF phase \notin ValidPhases THEN data
    ELSE [data EXCEPT !.analytics.semester_phase = phase]

\* update_semester_phase(phase): the value it returns.
update_semester_phase(data, phase) ==
    IF phase \notin ValidPhases
    THEN Result("update_semester_phase", "error", [phase |-> phase])
    ELSE Result("update_semester_phase", "success", [new_phase |-> phase])

UpdateSemesterPhase(phase) ==
    /\ ret' = update_semester_phase(file, phase)
    /\ file' = update_semester_phase_saves(file, phase)
    /\ UNCHANGED today

(* ---------------------------- the clock -------------------------------- *)
\* Midnight passes: datetime.now().date() is one day later.
Tick ==
    /\ today < MaxDay
    /\ today' = today + 1
    /\ ret' = Result("tick", "ok", "none")
    /\ UNCHANGED file

(* ---------------------------- specification ---------------------------- *)
\* The server has started: _load_data() of __main__ found no file and wrote
\* the default document.
Init ==
    /\ today = 0
    /\ file = get_default_data(0)
    /\ ret = Result("start", "ok", "none")

Next ==
    \/ Tick
    \/ CheckReadiness
    \/ GetAnalyticsContext
    \/ ValidateDayOffRequest
    \/ \E date \in DateStrs, p \in PlanInputs :
          SetDailyPlan(date, p.tasks, p.context, "medium")
    \/ \E date \in DateStrs, r \in ReportInputs :
          Report(date, r.completed, <<>>, r.skipped, FALSE, FALSE)
    \/ \E date \in LogDates(today), was_absent \in BOOLEAN :
          Report(date, <<>>, <<>>, <<>>, was_absent, TRUE)
    \/ Report(Day(today), <<>>, <<>>, <<>>, TRUE, FALSE)

Spec == Init /\ [][Next]_vars

(* ---------------------------- the gate on any document ----------------- *)
\* check_readiness_for_planning() is a function of the document and the day:
\* SpecGate starts it on every document of a bounded family (any set of plan
\* dates, any set of report dates, any day) rather than on the documents the
\* tools produce.  The plan for date d has a task that takes d hours, so that
\* two plans never have the same task list.
GatePlan(d) ==
    [tasks |-> <<Task(<<"Math", "hw">>, d)>>,
     context |-> "normal",
     energy_level |-> "medium",
     total_time |-> d]

GateReport ==
    [completed |-> <<"Math hw">>, partial |-> <<>>, skipped |-> <<>>,
     completion_rate |-> 100]

InitGate ==
    /\ today \in Days
    /\ \E P \in SUBSET DateStrs, R \in SUBSET DateStrs :
          file = [get_default_data(0) EXCEPT
                     !.plan = [d \in P |-> GatePlan(d)],
                     !.reports = [d \in R |-> GateReport]]
    /\ ret = Result("start", "ok", "none")

NextGate == CheckReadiness

SpecGate == InitGate /\ [][NextGate]_vars

(* ---------------------------- completion rates ------------------------- *)
\* report() stores len(completed) / len(plan tasks): SpecRate files reports
\* of 0..MaxTasks+1 completed names against a plan of 0..MaxTasks one-hour
\* tasks, set for any date on any day.  Only the lengths matter to report(),
\* so every task has the same name.
RatePlans ==
    {[i \in 1..n |-> Task(<<"Math", "hw">>, 1)] : n \in 0..MaxTasks}

InitRate ==
    /\ today \in Days
    /\ \E date \in DateStrs, tasks \in RatePlans :
          file = set_daily_plan(get_default_data(0), date, tasks,
                                "normal", "medium")
    /\ ret = Result("start", "ok", "none")

NextRate ==
    \E date \in DateStrs, k \in 0..(MaxTasks + 1) :
        Report(date, [i \in 1..k |-> "Math hw"], <<>>, <<>>, FALSE, FALSE)

SpecRate == InitRate /\ [][NextRate]_vars

(* ---------------------------- burnout on any analytics ------------------ *)
\* The phases update_semester_phase() accepts, and the default.
SemesterPhases ==
    {"N/A", "early_semester", "mid_semester", "late_semester",
     "finals_period", "semester_break"}

\* _calculate_burnout_risk() is a function of five analytics fields:
\* SpecBurnout starts on every combination of them on both sides of each
\* threshold and applies the function as _update_full_analytics does.
InitBurnout ==
    /\ today = 0
    /\ \E h \in 0..MaxStreak, ac \in 0..MaxAbsence, phase \in SemesterPhases,
          trend \in {59, 60}, dedication \in {49, 50} :
          file = [get_default_data(0) EXCEPT
                     !.analytics.consecutive_high_intensity_days = h,
                     !.analytics.absence_counter = ac,
                     !.analytics.semester_phase = phase,
                     !.analytics.completion_trends.last_7_days = trend,
                     !.analytics.dedication_percentage = dedication]
    /\ ret = Result("start", "ok", "none")

\* data["analytics"]["burnout_risk"] = _calculate_burnout_risk(data)
UpdateBurnoutRisk ==
    /\ file' = [file EXCEPT !.analytics.burnout_risk = calculate_burnout_risk(file)]
    /\ ret' = Result("calculate_burnout_risk", "ok",
                     [burnout_risk |-> calculate_burnout_risk(file)])
    /\ UNCHANGED today

NextBurnout == UpdateBurnoutRisk

SpecBurnout == InitBurnout /\ [][NextBurnout]_vars

(* ---------------------------- skip patterns ---------------------------- *)
\* The skipped lists of SpecSkips: one "Math" task without a reason, another
\* "Math" task with one, both in one report, and a "Read" task with a
\* "Math" task.
SkipInputs ==
    {<<[name |-> <<"Math", "hw">>, reason |-> NoReason]>>,
     <<[name |-> <<"Math", "quiz">>, reason |-> "tired"]>>,
     <<[name |-> <<"Math", "hw">>, reason |-> NoReason],
       [name |-> <<"Math", "quiz">>, reason |-> "tired"]>>,
     <<[name |-> <<"Read">>, reason |-> "boring"],
       [name |-> <<"Math", "hw">>, reason |-> NoReason]>>}

\* A plan for day 0 is set; reports for it skip tasks again and again, up to
\* MaxSkipCount skips of one key, between the other calls.
InitSkips ==
    /\ today = 0
    /\ file = set_daily_plan(get_default_data(0), Day(0),
                             <<Task(<<"Math", "hw">>, 2), Task(<<"Read">>, 1)>>,
                             "normal", "medium")
    /\ ret = Result("start", "ok", "none")

NextSkips ==
    \/ \E skipped \in SkipInputs :
          /\ SkipsWithin(file, skipped, MaxSkipCount)
          /\ ReportCall(Day(0), <<>>, <<>>, skipped, FALSE, FALSE)
    \/ GetAnalyticsContext
    \/ CheckReadiness
    \/ SetDailyPlan(Day(0), <<>>, "normal", "medium")
    \/ Report(Day(0), <<>>, <<>>, <<>>, FALSE, TRUE)

SpecSkips == InitSkips /\ [][NextSkips]_vars

(* ---------------------------- plans of every intensity ----------------- *)
\* The task lists of SpecPlan: no task, one task of exactly 5 hours, and two
\* tasks of 6 hours together.
PlanTaskLists ==
    {<<>>,
     <<Task(<<"Math", "hw">>, 5)>>,
     <<Task(<<"Math", "hw">>, 2), Task(<<"Read">>, 4)>>}

\* SpecPlan sets plans of every intensity, normal and hectic, for any date,
\* with streaks up to MaxStreak, between days passing, a day-off request
\* (which saves the absence counter), a report with a skip and a holiday.
NextPlan ==
    \/ Tick
    \/ ValidateDayOffRequest
    \/ \E date \in DateStrs, tasks \in PlanTaskLists,
          context \in {"normal", "hectic"} :
          /\ is_intense(tasks, context) =>
                file.analytics.consecutive_high_intensity_days < MaxStreak
          /\ SetDailyPlanCall(date, tasks, context, "medium")
    \/ Report(Day(today), <<"Math hw">>, <<>>,
              <<[name |-> <<"Math", "hw">>, reason |-> NoReason]>>, FALSE, FALSE)
    \/ Report(Day(today), <<>>, <<>>, <<>>, FALSE, TRUE)

SpecPlan == Init /\ [][NextPlan]_vars

(* ---------------------------- advice on any analytics ------------------ *)
\* The READY branch and validate_day_off_request() are functions of the
\* analytics and the day.  SpecAdvice starts them on the documents left by:
\* a phase update, a holiday (for day 0, or for a range of days) or none, a
\* plan of five one-hour tasks for day 0 set on a streak h, a report for day
\* 0 of 0, 2 or 5 completed tasks, and a day-off request that saved an
\* absence counter on an earlier day; then any day up to MaxGap.
AdviceTasks == [i \in 1..5 |-> Task(<<"Math", "hw">>, 1)]

AdviceDocument(h, ac, phase, log, k) ==
    LET d1 == [get_default_data(0) EXCEPT
                  !.analytics.semester_phase = phase,
                  !.analytics.holidays_log = log]
        d2 == [set_daily_plan(d1, Day(0), AdviceTasks,
                              IF h > 0 THEN "hectic" ELSE "normal", "medium")
                  EXCEPT !.analytics.consecutive_high_intensity_days = h]
        d3 == report_saves(d2, 0, Day(0), [i \in 1..k |-> "Math hw"],
                           <<>>, <<>>, FALSE, FALSE)
    IN  [d3 EXCEPT !.analytics.absence_counter = ac]

InitAdvice ==
    /\ today \in 0..MaxGap
    /\ \E h \in 0..MaxStreak, ac \in 0..MaxAbsence, phase \in SemesterPhases,
          k \in {0, 2, 5},
          log \in {<<>>, <<log_entry(Day(0), 0)>>, <<log_entry(Range(0), 0)>>} :
          /\ ac <= Max(0, today - 1)
          /\ file = AdviceDocument(h, ac, phase, log, k)
    /\ ret = Result("start", "ok", "none")

NextAdvice ==
    \/ CheckReadiness
    \/ ValidateDayOffRequest

SpecAdvice == InitAdvice /\ [][NextAdvice]_vars

(* ---------------------------- semester phases -------------------------- *)
\* The phases a caller passes: the five valid ones, the default value "N/A"
\* and a phase that does not exist.
PhaseInputs == ValidPhases \cup {"N/A", "summer"}

\* SpecPhase updates the phase between the calls of every other tool, made
\* for the current day.
NextPhase ==
    \/ \E phase \in PhaseInputs : UpdateSemesterPhase(phase)
    \/ Tick
    \/ CheckReadiness
    \/ GetAnalyticsContext
    \/ ValidateDayOffRequest
    \/ \E context \in {"normal", "hectic"} :
          SetDailyPlan(Day(today), <<Task(<<"Math", "hw">>, 2)>>, context, "medium")
    \/ Report(Day(today), <<"Math hw">>, <<>>, <<>>, FALSE, FALSE)
    \/ Report(Day(today), <<>>, <<>>, <<>>, FALSE, TRUE)

SpecPhase == Init /\ [][NextPhase]_vars

(* ---------------------------- the backing file ------------------------- *)
\* Up to here `file` is the document the JSON file holds: what _load_data()
\* returns for a file that parses.  The definitions below model the file
\* itself, for SpecStore, as a resource:
\*   [kind |-> "missing"]      DATA_FILE does not exist
\*   [kind |-> "empty"]        it has size 0
\*   [kind |-> "malformed"]    it decodes as UTF-8 but is not JSON
\*   [kind |-> "undecodable"]  its bytes are not UTF-8
\*   [kind |-> "json", text |-> [order |-> .., values |-> ..]]
\*                             a JSON object: its keys in the order of the
\*                             text, and the text of each member's value.
\* The order in which _get_default_data() lists the sections.
DefaultOrder == <<"plan", "reports", "long_term_tasks", "analytics">>

\* json.dump writes a float by its repr, the shortest decimal that reads
\* back as the same float: 1.5 is written "1.5", 0.07 is written "0.07".
\* The text of a number of hundredths is its whole part and its two decimals.
dump_number(n) == [whole |-> n \div 100, cents |-> n % 100]

\* load_number that drops the decimals.
load_number_whole(t) == 100 * t.whole

\* json.load reads the decimal back.
load_number(t) == 100 * t.whole + t.cents

\* The text of the value of one section: the floats of reports and of
\* analytics are written as decimals, everything else as it is.
dump_value(key, v) ==
    IF key = "reports"
    THEN [d \in DOMAIN v |->
             [v[d] EXCEPT !.completion_rate = dump_number(v[d].completion_rate)]]
    ELSE IF key = "analytics"
    THEN [v EXCEPT
             !.dedication_percentage = dump_number(v.dedication_percentage),
             !.completion_trends =
                 [last_7_days |-> dump_number(v.completion_trends.last_7_days),
                  last_30_days |-> dump_number(v.completion_trends.last_30_days)]]
    ELSE v

load_value(key, t) ==
    IF key = "reports"
    THEN [d \in DOMAIN t |->
             [t[d] EXCEPT !.completion_rate = load_number(t[d].completion_rate)]]
    ELSE IF key = "analytics"
    THEN [t EXCEPT
             !.dedication_percentage = load_number(t.dedication_percentage),
             !.completion_trends =
                 [last_7_days |-> load_number(t.completion_trends.last_7_days),
                  last_30_days |-> load_number(t.completion_trends.last_30_days)]]
    ELSE t

\* _save_data(data): json.dump writes the keys of the dict in their
\* insertion order, here order.
save_data(data, order) ==
    [kind |-> "json",
     text |-> [order |-> order,
               values |-> [k \in DOMAIN data |-> dump_value(k, data[k])]]]

\* _load_data() raises when the file exists and is not UTF-8: open(..,
\* encoding="utf-8") makes json.load raise UnicodeDecodeError, which the
\* except clause (JSONDecodeError, FileNotFoundError) does not catch.
load_raises(resource) == resource.kind = "undecodable"

\* _load_data(): the document it returns.  Whatever object the file holds is
\* returned as it is; a missing or empty file and one that is not JSON give
\* the default document of the day.
load_data(resource, now) ==
    IF resource.kind = "json"
    THEN [k \in DOMAIN resource.text.values |->
             load_value(k, resource.text.values[k])]
    ELSE get_default_data(now)

\* The insertion order of the dict _load_data() returns.
loaded_order(resource) ==
    IF resource.kind = "json" THEN resource.text.order ELSE DefaultOrder

\* _load_data(): the file after the call.  The default document is saved
\* when it is returned; a file that parses is not written.
load_saves(resource, now) ==
    IF resource.kind \in {"json", "undecodable"} THEN resource
    ELSE save_data(get_default_data(now), DefaultOrder)

StoreRaised(op) == Result(op, "UnicodeDecodeError", "none")

KeyError(op, key) == Result(op, "KeyError", [key |-> key])

\* show_long_term_tasks(): data.get("long_term_tasks", {})
show_long_term_tasks(data) ==
    Result("show_long_term_tasks", "ok",
           [long_term_tasks |->
               IF "long_term_tasks" \in DOMAIN data
               THEN data.long_term_tasks ELSE "none"])

ShowLongTermTasksStored ==
    /\ ret' = IF load_raises(file) THEN StoreRaised("show_long_term_tasks")
              ELSE show_long_term_tasks(load_data(file, today))
    /\ file' = load_saves(file, today)
    /\ UNCHANGED today

\* The document as the reads with a default see it: data.get("reports", {}),
\* data.get("long_term_tasks", {}), data.get("analytics", {}) with its
\* .get("semester_phase") of None, and analytics.get("holidays_log", []).
with_defaults(data) ==
    [plan |-> data.plan,
     reports |-> IF "reports" \in DOMAIN data THEN data.reports ELSE EmptyMap,
     long_term_tasks |->
         IF "long_term_tasks" \in DOMAIN data THEN data.long_term_tasks
         ELSE "none",
     analytics |->
         IF "analytics" \notin DOMAIN data THEN [semester_phase |-> "null"]
         ELSE IF "holidays_log" \in DOMAIN data.analytics THEN data.analytics
         ELSE [k \in DOMAIN data.analytics \cup {"holidays_log"} |->
                  IF k = "holidays_log" THEN <<>> ELSE data.analytics[k]]]

\* Whether check_readiness_for_planning() gets past its three early returns
\* on a document that has a plan section.
reaches_ready(data, now) ==
    /\ unreported_dates(with_defaults(data), now) = {}
    /\ Day(now) \notin DOMAIN data.plan
    /\ Day(now) \notin DOMAIN with_defaults(data).reports

\* check_readiness_for_planning() on whatever document _load_data() returned:
\* data["plan"] and, for a plan that is not empty, data["reports"] are read
\* without a default, and the READY branch writes into data["analytics"].
check_readiness_loaded(data, now) ==
    LET op == "check_readiness_for_planning" IN
    IF "plan" \notin DOMAIN data THEN KeyError(op, "plan")
    ELSE IF DOMAIN data.plan # {} /\ "reports" \notin DOMAIN data
    THEN KeyError(op, "reports")
    ELSE IF reaches_ready(data, now) /\ "analytics" \notin DOMAIN data
    THEN KeyError(op, "analytics")
    ELSE check_readiness_for_planning(with_defaults(data), now)

\* Whether that call reaches the save of _update_absence_counter().
check_readiness_loaded_saves(data, now) ==
    /\ "plan" \in DOMAIN data
    /\ DOMAIN data.plan # {} => "reports" \in DOMAIN data
    /\ reaches_ready(data, now)
    /\ "analytics" \in DOMAIN data
    /\ ~absence_counter_raises(data)

CheckReadinessStored ==
    /\ ret' = IF load_raises(file) THEN StoreRaised("check_readiness_for_planning")
              ELSE check_readiness_loaded(load_data(file, today), today)
    /\ file' = IF ~load_raises(file)
                  /\ check_readiness_loaded_saves(load_data(file, today), today)
               THEN save_data(update_absence_counter(load_data(file, today), today),
                              loaded_order(file))
               ELSE load_saves(file, today)
    /\ UNCHANGED today

\* The holiday branch of report() on whatever document _load_data()
\* returned: data["analytics"]["holidays_log"] is read without a default.
report_holiday_loaded(data, date) ==
    IF "analytics" \notin DOMAIN data THEN KeyError("report", "analytics")
    ELSE IF "holidays_log" \notin DOMAIN data.analytics
    THEN KeyError("report", "holidays_log")
    ELSE Result("report", "Holiday logged successfully.", [date |-> date])

ReportHolidayStoredCall(date) ==
    /\ ret' = IF load_raises(file) THEN StoreRaised("report")
              ELSE report_holiday_loaded(load_data(file, today), date)
    /\ file' = IF ~load_raises(file)
                  /\ report_holiday_loaded(load_data(file, today), date).status
                        # "KeyError"
               THEN save_data(report_holiday(load_data(file, today), date, today),
                              loaded_order(file))
               ELSE load_saves(file, today)
    /\ UNCHANGED today

\* data["plan"] = {..}: the dict with the key plan, added last when it was
\* not there.
with_plan(data) ==
    [k \in DOMAIN data \cup {"plan"} |->
        IF k = "plan" /\ "plan" \notin DOMAIN data THEN EmptyMap ELSE data[k]]

with_plan_order(data, order) ==
    IF "plan" \in DOMAIN data THEN order ELSE Append(order, "plan")

\* set_daily_plan() on whatever document _load_data() returned:
\* data["analytics"] is read without a default.
set_daily_plan_loaded(data, date, tasks, context, energy_level) ==
    IF "analytics" \notin DOMAIN data
    THEN KeyError("set_daily_plan", "analytics")
    ELSE set_daily_plan_result(with_plan(data), date, tasks, context, energy_level)

SetDailyPlanStored(date, tasks, context, energy_level) ==
    LET data == load_data(file, today) IN
    /\ ret' = IF load_raises(file) THEN StoreRaised("set_daily_plan")
              ELSE set_daily_plan_loaded(data, date, tasks, context, energy_level)
    /\ file' = IF ~load_raises(file) /\ "analytics" \in DOMAIN data
               THEN save_data(set_daily_plan(with_plan(data), date, tasks,
                                             context, energy_level),
                              with_plan_order(data, loaded_order(file)))
               ELSE load_saves(file, today)
    /\ UNCHANGED today

\* The holiday report, while the log it appends to is within the bound.
ReportHolidayStored(date) ==
    /\ IF load_raises(file) THEN TRUE
       ELSE IF report_holiday_loaded(load_data(file, today), date).status
                  = "KeyError"
       THEN TRUE
       ELSE Len(load_data(file, today).analytics.holidays_log) < MaxLog
    /\ ReportHolidayStoredCall(date)

(* ---------------------------- any backing file ------------------------- *)
\* The orders in which the keys S can stand in the text.
Orders(S) ==
    {o \in [1..Cardinality(S) -> S] :
        \A i, j \in 1..Cardinality(S) : i # j => o[i] # o[j]}

\* Documents the tools produce: the default one, one with a hectic plan, one
\* with a report of two completed tasks against a plan of one, and one with
\* a holiday logged for a range of days.
StoreDocument(i) ==
    LET d1 == get_default_data(0)
        d2 == set_daily_plan(d1, Day(0), <<Task(<<"Math", "hw">>, 2)>>,
                             "hectic", "medium")
        d3 == report_saves(d2, 0, Day(0), <<"Math hw", "Read">>, <<>>, <<>>,
                           FALSE, FALSE)
        d4 == report_holiday(d1, Range(0), 0)
    IN  IF i = 1 THEN d1 ELSE IF i = 2 THEN d2 ELSE IF i = 3 THEN d3 ELSE d4

\* data without the sections outside S.
only_sections(data, S) == [k \in S |-> data[k]]

\* data without analytics["holidays_log"].
without_holidays_log(data) ==
    [data EXCEPT !.analytics =
        [k \in DOMAIN data.analytics \ {"holidays_log"} |-> data.analytics[k]]]

\* SpecStore starts on any file: missing, empty, not JSON, not UTF-8, a
\* document the tools produce written with its keys in any order, the same
\* with any of its sections left out, or without holidays_log.
InitStore ==
    /\ today \in Days
    /\ \/ \E kind \in {"missing", "empty", "malformed", "undecodable"} :
             file = [kind |-> kind]
       \/ \E i \in 1..4, S \in SUBSET {"plan", "reports", "long_term_tasks",
                                      "analytics"} :
             \E order \in Orders(S) :
                file = save_data(only_sections(StoreDocument(i), S), order)
       \/ file = save_data(without_holidays_log(StoreDocument(3)), DefaultOrder)
    /\ ret = Result("start", "ok", "none")

NextStore ==
    \/ ShowLongTermTasksStored
    \/ CheckReadinessStored
    \/ ReportHolidayStored(Day(today))
    \/ SetDailyPlanStored(Day(today), <<Task(<<"Math", "hw">>, 2)>>,
                          "normal", "medium")

SpecStore == InitStore /\ [][NextStore]_vars

(* ---------------------------- long-term tasks --------------------------- *)
\* long_term_tasks is a dict the engine never looks into: the default {} is
\* "none", and a caller passes any dict, here one of LongTermInputs.
LongTermInputs == {"none", "thesis", "thesis and exam"}

\* edit_long_term_tasks that also clears the plan.
edit_long_term_tasks_clears(data, new_tasks) ==
    [data EXCEPT !.long_term_tasks = new_tasks, !.plan = EmptyMap]

\* edit_long_term_tasks(new_tasks): the document on disk after the call.
edit_long_term_tasks_saves(data, new_tasks) ==
    [data EXCEPT !.long_term_tasks = new_tasks]

\* edit_long_term_tasks(new_tasks): the value it returns.
edit_long_term_tasks(data, new_tasks) ==
    Result("edit_long_term_tasks", "ok", [long_term_tasks |-> new_tasks])

EditLongTermTasks(new_tasks) ==
    /\ ret' = edit_long_term_tasks(file, new_tasks)
    /\ file' = edit_long_term_tasks_saves(file, new_tasks)
    /\ UNCHANGED today

\* show_long_term_tasks() on a document that parses: nothing is written.
ShowLongTermTasks ==
    /\ ret' = show_long_term_tasks(file)
    /\ UNCHANGED <<file, today>>

(* ---------------------------- every tool ------------------------------- *)
\* SpecFrame calls every tool of the server, each for the current day: the
\* two tools of long_term_tasks, update_semester_phase with a valid and an
\* invalid phase, a normal and a hectic plan, a normal report, a holiday and
\* an absence.
NextFrame ==
    \/ Tick
    \/ CheckReadiness
    \/ GetAnalyticsContext
    \/ ValidateDayOffRequest
    \/ \E phase \in {"finals_period", "summer"} : UpdateSemesterPhase(phase)
    \/ \E new_tasks \in LongTermInputs : EditLongTermTasks(new_tasks)
    \/ ShowLongTermTasks
    \/ \E context \in {"normal", "hectic"} :
          SetDailyPlan(Day(today), <<Task(<<"Math", "hw">>, 2)>>, context, "medium")
    \/ Report(Day(today), <<"Math hw">>, <<>>, <<>>, FALSE, FALSE)
    \/ Report(Day(today), <<>>, <<>>, <<>>, FALSE, TRUE)
    \/ Report(Day(today), <<>>, <<>>, <<>>, TRUE, FALSE)

SpecFrame == Init /\ [][NextFrame]_vars

(* ---------------------------- a longer history ------------------------- *)
\* The skipped lists of SpecHistory: nothing, or the "Math" task.
HistorySkips ==
    {<<>>, <<[name |-> <<"Math", "hw">>, reason |-> NoReason]>>}

\* The plans of SpecHistory: one task, or two.
HistoryPlans ==
    {<<Task(<<"Math", "hw">>, 2)>>,
     <<Task(<<"Math", "hw">>, 2), Task(<<"Read">>, 1)>>}

\* SpecHistory lets reports for several dates and log entries pile up: a
\* plan is set for the current day, reports are filed (and filed again) for
\* any date, with and without a skip, and holidays and absences are logged,
\* up to MaxHistory entries in the logs and MaxHistory skips of a key.
NextHistory ==
    \/ Tick
    \/ GetAnalyticsContext
    \/ \E tasks \in HistoryPlans :
          SetDailyPlanCall(Day(today), tasks, "normal", "medium")
    \/ \E date \in DateStrs, skipped \in HistorySkips :
          /\ SkipsWithin(file, skipped, MaxHistory)
          /\ ReportCall(date, <<"Math hw">>, <<>>, skipped, FALSE, FALSE)
    \/ \E was_absent \in BOOLEAN :
          /\ Len(file.analytics.holidays_log) + Len(file.analytics.absence_log)
                < MaxHistory
          /\ ReportCall(Day(today), <<>>, <<>>, <<>>, was_absent, ~was_absent)

SpecHistory == Init /\ [][NextHistory]_vars

(* ---------------------------- two processes ---------------------------- *)
\* Each tool is data = _load_data(); change data; _save_data(data), with no
\* lock on the file.  SpecRace runs two server processes on the same file:
\* a call is split where it reads the file and where it writes it, and the
\* steps of the two processes interleave.  In SpecRace ret[p] is the state
\* of process p: pc is its position ("idle", "loaded" once _load_data()
\* returned, "done" once the call returned), call the call it runs, data its
\* copy of the document (after the call, the document it saved) and result
\* the value the call returned.
Procs == {1, 2}

\* The calls a process makes: a holiday logged for the current day,
\* update_semester_phase with two valid phases and an invalid one, and
\* edit_long_term_tasks.
RaceCalls(now) ==
    {[tool |-> "report", date |-> Day(now), phase |-> "", tasks |-> ""]}
    \cup {[tool |-> "update_semester_phase", date |-> 0, phase |-> ph, tasks |-> ""] :
             ph \in {"finals_period", "mid_semester", "summer"}}
    \cup {[tool |-> "edit_long_term_tasks", date |-> 0, phase |-> "", tasks |-> t] :
             t \in {"thesis", "thesis and exam"}}

\* Whether the call reaches _save_data(): update_semester_phase returns
\* before it for an invalid phase.
race_writes(call) ==
    call.tool = "update_semester_phase" => call.phase \in ValidPhases

\* A save that reads the file again and applies the change to what is there.
race_saves_merged(call, data, disk, now) ==
    IF call.tool = "report" THEN report_holiday(disk, call.date, now)
    ELSE IF call.tool = "update_semester_phase"
    THEN update_semester_phase_saves(disk, call.phase)
    ELSE edit_long_term_tasks_saves(disk, call.tasks)

\* The document the call passes to _save_data(): its own copy data, changed.
\* What the file holds by then (disk) plays no part.
race_saves(call, data, disk, now) ==
    IF call.tool = "report" THEN report_holiday(data, call.date, now)
    ELSE IF call.tool = "update_semester_phase"
    THEN update_semester_phase_saves(data, call.phase)
    ELSE edit_long_term_tasks_saves(data, call.tasks)

\* The value the call returns.
race_result(call, data, now) ==
    IF call.tool = "report"
    THEN report(data, now, call.date, <<>>, <<>>, <<>>, FALSE, TRUE)
    ELSE IF call.tool = "update_semester_phase"
    THEN update_semester_phase(data, call.phase)
    ELSE edit_long_term_tasks(data, call.tasks)

\* Process p starts a call: data = _load_data().  Holidays are logged while
\* the log on file is shorter than MaxHistory.
RaceLoad(p, call) ==
    /\ ret[p].pc \in {"idle", "done"}
    /\ call.tool = "report" => Len(file.analytics.holidays_log) < MaxHistory
    /\ ret' = [ret EXCEPT ![p] = [pc |-> "loaded", call |-> call, data |-> file,
                                  result |-> Result(call.tool, "running", "none")]]
    /\ UNCHANGED <<file, today>>

\* Process p finishes its call: it changes its copy, saves it over the file
\* and returns.
RaceSave(p) ==
    /\ ret[p].pc = "loaded"
    /\ file' = IF race_writes(ret[p].call)
               THEN race_saves(ret[p].call, ret[p].data, file, today)
               ELSE file
    /\ ret' = [ret EXCEPT ![p] =
                  [pc |-> "done", call |-> ret[p].call,
                   data |-> IF race_writes(ret[p].call)
                            THEN race_saves(ret[p].call, ret[p].data, file, today)
                            ELSE ret[p].data,
                   result |-> race_result(ret[p].call, ret[p].data, today)]]
    /\ UNCHANGED today

InitRace ==
    /\ today \in Days
    /\ file = get_default_data(0)
    /\ ret = [p \in Procs |->
                 [pc |-> "idle",
                  call |-> [tool |-> "", date |-> 0, phase |-> "", tasks |-> ""],
                  data |-> get_default_data(0),
                  result |-> Result("", "idle", "none")]]

NextRace ==
    \/ \E p \in Procs, call \in RaceCalls(today) : RaceLoad(p, call)
    \/ \E p \in Procs : RaceSave(p)

SpecRace == InitRace /\ [][NextRace]_vars

(* ---------------------------- advice on any holidays ------------------- *)
\* The holiday logs of SpecHoliday: up to two entries, each for any day up
\* to MaxGap, in any order of appending, so that the last entry may be
\* older than the one before it and an entry may lie after today.
HolidayLogs ==
    {<<>>}
    \cup {<<log_entry(Day(n), 0)>> : n \in 0..MaxGap}
    \cup {<<log_entry(Day(n1), 0), log_entry(Day(n2), 0)>> :
             n1 \in 0..MaxGap, n2 \in 0..MaxGap}

\* SpecHoliday asks for advice on any day on documents with such a log,
\* with a streak that makes burnout_risk low, medium or high.
InitHoliday ==
    /\ today \in 0..MaxGap
    /\ \E h \in {0, 3, MaxStreak}, phase \in {"N/A", "finals_period"},
          log \in HolidayLogs :
          file = AdviceDocument(h, 0, phase, log, 0)
    /\ ret = Result("start", "ok", "none")

NextHoliday ==
    \/ CheckReadiness
    \/ ValidateDayOffRequest

SpecHoliday == InitHoliday /\ [][NextHoliday]_vars

(* ---------------------------- logs for any date ------------------------ *)
\* SpecBlock logs holidays and absences for any date, also for the date of
\* a plan that was never reported, between plans, reports and days passing.
NextBlock ==
    \/ Tick
    \/ CheckReadiness
    \/ SetDailyPlan(Day(today), <<Task(<<"Math", "hw">>, 2)>>, "normal", "medium")
    \/ \E date \in DateStrs :
          ReportCall(date, <<"Math hw">>, <<>>, <<>>, FALSE, FALSE)
    \/ \E date \in DateStrs, was_absent \in BOOLEAN :
          /\ Len(file.analytics.holidays_log) + Len(file.analytics.absence_log)
                < MaxHistory
          /\ ReportCall(date, <<>>, <<>>, <<>>, was_absent, ~was_absent)

SpecBlock == Init /\ [][NextBlock]_vars

(* ======================================================================= *)
(* Claims                                                                  *)
(* ======================================================================= *)
CheckOp == "check_readiness_for_planning"
ReportOk == "Report logged successfully."

\* The plan dates earlier than today that have no report, stated on the
\* document itself.
BlockingDates ==
    {d \in DOMAIN file.plan : d < Day(today) /\ d \notin DOMAIN file.reports}

\* What the gate would answer in the current state.
GateStatus(data, now) == check_readiness_for_planning(data, now).status

\* max(0, (today - last_task_date).days - 1) for the document on disk.
FreshAbsence ==
    Max(0, today - ToDay(file.analytics.last_task_date) - 1)

\* C1: on every document and every day, if some plan date is earlier than
\* today and has no report, check_readiness returns BLOCKED with the earliest
\* such date and the task list of that date's plan, whether or not today is
\* itself a key of plan or of reports.  (Checked under SpecGate.)
C1_BlockedOnEarliest ==
    (ret.op = CheckOp /\ BlockingDates # {}) =>
        /\ ret.status = "BLOCKED"
        /\ ret.out.unreported_date \in BlockingDates
        /\ \A d \in BlockingDates : ret.out.unreported_date <= d
        /\ ret.out.tasks = file.plan[ret.out.unreported_date].tasks

\* C1 witness: the gate answered BLOCKED with two blocking dates while today
\* is a key of both plan and reports.
C1_Witness ==
    /\ ret.op = CheckOp
    /\ ret.status = "BLOCKED"
    /\ Cardinality(BlockingDates) >= 2
    /\ Day(today) \in DOMAIN file.plan
    /\ Day(today) \in DOMAIN file.reports

\* C2 as claimed: while some plan date before today is unreported,
\* set_daily_plan cannot install a new plan.
C2_Original ==
    [][(BlockingDates # {} /\ ret'.op = "set_daily_plan")
          => file'.plan = file.plan]_vars

\* C2 as amended: the gate is advisory.  While a plan date d before today is
\* unreported, check_readiness answers BLOCKED, and d stops blocking only
\* through a successful normal report for d or through set_daily_plan, which
\* is not guarded and replaces the plan.
C2_BlockLiftedOnlyBy ==
    [][/\ (ret'.op = CheckOp /\ BlockingDates # {}) => ret'.status = "BLOCKED"
       /\ \A d \in BlockingDates :
             \/ d \in BlockingDates'
             \/ ret'.op = "report" /\ ret'.status = ReportOk /\ ret'.out.date = d
             \/ ret'.op = "set_daily_plan"]_vars

\* C2 witness: the gate answered BLOCKED on the date of the last plan set.
C2_Witness ==
    /\ ret.op = CheckOp
    /\ ret.status = "BLOCKED"
    /\ ret.out.unreported_date = file.analytics.last_task_date

\* C3: when the gate answers BLOCKED on d, a successful normal report for d
\* leaves a document on which the gate, the same day, does not answer BLOCKED.
C3_ReportResolves ==
    [][(/\ GateStatus(file, today) = "BLOCKED"
        /\ ret'.op = "report"
        /\ ret'.status = ReportOk
        /\ ret'.out.date =
              check_readiness_for_planning(file, today).out.unreported_date)
          => GateStatus(file', today') # "BLOCKED"]_vars

\* C3 witness: a normal report for a date before today has just succeeded and
\* the gate is not blocked.
C3_Witness ==
    /\ ret.op = "report"
    /\ ret.status = ReportOk
    /\ ret.out.date < Day(today)
    /\ GateStatus(file, today) # "BLOCKED"

\* C4 as claimed: check_readiness always answers one of the four statuses
\* (the code spells the second PLAN_EXIST), with the fixed priority BLOCKED,
\* plan exists, ALREADY_REPORTED, READY.
C4_Original ==
    ret.op = CheckOp =>
        /\ ret.status \in {"BLOCKED", "PLAN_EXIST", "ALREADY_REPORTED", "READY"}
        /\ ret.status = "BLOCKED" <=> BlockingDates # {}
        /\ BlockingDates = {} =>
              (ret.status = "PLAN_EXIST" <=> Day(today) \in DOMAIN file.plan)
        /\ (BlockingDates = {} /\ Day(today) \notin DOMAIN file.plan) =>
              (ret.status = "ALREADY_REPORTED" <=> Day(today) \in DOMAIN file.reports)
        /\ (DOMAIN file.plan = {} /\ DOMAIN file.reports = {}) => ret.status = "READY"

\* C5 as claimed: when a report for today is recorded and no earlier plan is
\* unreported, check_readiness answers ALREADY_REPORTED with today's report.
C5_Original ==
    (ret.op = CheckOp /\ BlockingDates = {} /\ Day(today) \in DOMAIN file.reports) =>
        /\ ret.status = "ALREADY_REPORTED"
        /\ ret.out.report = file.reports[Day(today)]

\* C6 as claimed: check_readiness and validate_day_off_request leave the
\* document on disk as it was.
C6_Original ==
    [][ret'.op \in {CheckOp, "validate_day_off_request"} => file' = file]_vars

\* C7: plan never has more than one entry.
C7_SinglePlan == Cardinality(DOMAIN file.plan) <= 1

\* C7 witness: set_daily_plan has just replaced the plan of a date that has
\* a report by the plan of another date.
C7_Witness ==
    /\ ret.op = "set_daily_plan"
    /\ Cardinality(DOMAIN file.plan) = 1
    /\ (DOMAIN file.reports) \ (DOMAIN file.plan) # {}

\* C8 as claimed: after a recompute with last_task_date set, the
\* absence_counter returned and the one on disk are
\* max(0, (today - last_task_date).days - 1): for get_analytics_context, for
\* a normal report and for the READY answer.
C8_Original ==
    /\ (ret.op = "get_analytics_context" /\ ret.status = "ok") =>
          /\ ret.out.absence_counter = FreshAbsence
          /\ file.analytics.absence_counter = FreshAbsence
    /\ (ret.op = "report" /\ ret.status = ReportOk) =>
          file.analytics.absence_counter = FreshAbsence
    /\ (ret.op = CheckOp /\ ret.status = "READY") =>
          ret.out.absence_counter = FreshAbsence

\* The calls that recompute analytics without changing their inputs.
Recomputed(r) ==
    \/ r.op = "get_analytics_context" /\ r.status = "ok"
    \/ r.op = CheckOp /\ r.status = "READY"
    \/ r.op = "validate_day_off_request" /\ r.status = "ok"

\* C9 as claimed: recomputing is idempotent.  The same recomputing call made
\* twice in a row on the same day gives the same values the second time and
\* leaves the document on disk as the first call left it.
C9_Original ==
    [][(Recomputed(ret) /\ Recomputed(ret') /\ ret'.op = ret.op /\ today' = today)
          => (ret' = ret /\ file' = file)]_vars

\* The days strictly between last_task_date and today for which no holiday
\* and no absence is logged.
UnloggedDays ==
    LET a == file.analytics
        logged == {a.holidays_log[i].date : i \in DOMAIN a.holidays_log}
                  \cup {a.absence_log[i].date : i \in DOMAIN a.absence_log}
    IN  {n \in Days : /\ ToDay(a.last_task_date) < n
                      /\ n < today
                      /\ Day(n) \notin logged}

\* C10 as claimed: after a recompute, absence_counter does not count a day
\* for which a holiday or an absence was logged.
C10_Original ==
    (Recomputed(ret) /\ IsDate(file.analytics.last_task_date)) =>
        file.analytics.absence_counter <= Cardinality(UnloggedDays)

\* C11 as claimed: dedication_percentage (hundredths) is never negative and
\* never above 1 in any reachable state.
C11_Original ==
    /\ 0 <= file.analytics.dedication_percentage
    /\ file.analytics.dedication_percentage <= 100

\* C12: a successful normal report of k completed names for a date whose
\* plan has n tasks stores completion_rate 0 when n = 0, and otherwise the
\* hundredth nearest to k / n.  (Checked under SpecRate.)
C12_StoredRate ==
    [][\A date \in DateStrs, k \in 0..(MaxTasks + 1) :
          (/\ Report(date, [i \in 1..k |-> "Math hw"], <<>>, <<>>, FALSE, FALSE)
           /\ ret'.status = ReportOk)
          => LET n == Len(file.plan[date].tasks)
                 rate == file'.reports[date].completion_rate
                 off == 100 * k - rate * n
             IN  IF n = 0 THEN rate = 0
                 ELSE 2 * off <= n /\ -2 * off <= n]_vars

\* C12 witness: a report of 2 completed names against a 4-task plan has
\* stored 0.5, and one of 2 against a 3-task plan would round.
C12_Witness ==
    /\ ret.op = "report"
    /\ ret.status = ReportOk
    /\ Len(file.plan[ret.out.date].tasks) = 4
    /\ Len(file.reports[ret.out.date].completed) = 2
    /\ file.reports[ret.out.date].completion_rate = 50

\* C13 as claimed: every stored report has completion_rate in [0, 1].
C13_Original ==
    \A d \in DOMAIN file.reports :
        /\ 0 <= file.reports[d].completion_rate
        /\ file.reports[d].completion_rate <= 100

\* The report dates d with 0 <= today - d < window.
WindowDates(window) ==
    {d \in DOMAIN file.reports :
        /\ IsDate(d)
        /\ 0 <= today - ToDay(d)
        /\ today - ToDay(d) < window}

\* The mean of completion_rate over WindowDates(window), in hundredths, 0 on
\* the empty set.
WindowMean(window) ==
    IF WindowDates(window) = {} THEN 0
    ELSE RoundHalfEven(SumRates(file.reports, WindowDates(window)),
                       Cardinality(WindowDates(window)))

\* C14 as claimed: after a recompute that saves, the trends are the means
\* over the reports dated within the window up to today, a report dated
\* after today left out.
C14_Original ==
    ((ret.op = "get_analytics_context" /\ ret.status = "ok")
        \/ (ret.op = "report" /\ ret.status = ReportOk)) =>
        /\ file.analytics.completion_trends.last_7_days = WindowMean(7)
        /\ file.analytics.completion_trends.last_30_days = WindowMean(30)

\* The cumulative risk score of the claim, in hundredths.
ClaimedScore(a) ==
    (IF a.consecutive_high_intensity_days >= 3 THEN 30 ELSE 0)
  + (IF a.consecutive_high_intensity_days >= 5 THEN 20 ELSE 0)
  + (IF a.completion_trends.last_7_days < 60 THEN 20 ELSE 0)
  + (IF a.dedication_percentage < 50 THEN 10 ELSE 0)
  + (IF a.semester_phase \in {"mid_semester", "late_semester"} THEN 15 ELSE 0)
  + (IF a.semester_phase = "finals_period" THEN 25 ELSE 0)
  + (IF a.absence_counter > 2 THEN 10 ELSE 0)

ClaimedBand(score) ==
    IF score >= 80 THEN "critical"
    ELSE IF score >= 60 THEN "high"
    ELSE IF score >= 40 THEN "medium"
    ELSE "low"

BurnoutOp == "calculate_burnout_risk"

\* C15 as claimed: burnout_risk is the band of the cumulative score for every
\* combination of inputs, a sum of exactly 0.4, 0.6 or 0.8 included.
\* (Checked under SpecBurnout.)
C15_Original ==
    ret.op = BurnoutOp =>
        ret.out.burnout_risk = ClaimedBand(ClaimedScore(file.analytics))

\* low < medium < high < critical
BandRank(band) ==
    IF band = "low" THEN 0
    ELSE IF band = "medium" THEN 1
    ELSE IF band = "high" THEN 2
    ELSE 3

\* The bonus of a phase in the risk score.
PhaseBonus(phase) ==
    IF phase \in {"mid_semester", "late_semester"} THEN 15
    ELSE IF phase = "finals_period" THEN 25
    ELSE 0

\* The analytics that differ from a in one risk factor only, which is worse:
\* a longer streak, a lower 7-day trend, a lower dedication, a higher
\* absence_counter, or a phase with a larger bonus.
Worse(a) ==
    {[a EXCEPT !.consecutive_high_intensity_days = h] :
        h \in (a.consecutive_high_intensity_days + 1)..(MaxStreak + 1)}
    \cup {[a EXCEPT !.completion_trends.last_7_days = t] :
        t \in 0..(a.completion_trends.last_7_days - 1)}
    \cup {[a EXCEPT !.dedication_percentage = d] :
        d \in 0..(a.dedication_percentage - 1)}
    \cup {[a EXCEPT !.absence_counter = c] :
        c \in (a.absence_counter + 1)..(MaxAbsence + 1)}
    \cup {[a EXCEPT !.semester_phase = p] :
        p \in {q \in SemesterPhases : PhaseBonus(q) > PhaseBonus(a.semester_phase)}}

\* C16: the burnout band is monotonic.  For the analytics whose band was just
\* computed and every analytics that is worse in one risk factor only, the
\* band of the worse one is not lower.  (Checked under SpecBurnout.)
C16_Monotonic ==
    ret.op = BurnoutOp =>
        \A b \in Worse(file.analytics) :
            BandRank(calculate_burnout_risk([file EXCEPT !.analytics = b]))
                >= BandRank(ret.out.burnout_risk)

\* C16 witness: a band was computed as high on a streak of 5 with a low trend
\* and a low dedication, and an input worse in one factor has a higher band.
C16_Witness ==
    /\ ret.op = BurnoutOp
    /\ ret.out.burnout_risk = "high"
    /\ file.analytics.consecutive_high_intensity_days >= 5
    /\ file.analytics.dedication_percentage < 50
    /\ \E b \in Worse(file.analytics) :
          calculate_burnout_risk([file EXCEPT !.analytics = b]) = "critical"

HolidayOk == "Holiday logged successfully."
AbsenceOk == "Absence logged successfully."

\* log grew by exactly one entry, for date, appended at the end.
GrewByOne(old, new, date) ==
    /\ Len(new) = Len(old) + 1
    /\ SubSeq(new, 1, Len(old)) = old
    /\ new[Len(new)].date = date

\* C17: a call of report with was_holiday (with or without was_absent)
\* appends one entry to holidays_log, and one with was_absent alone appends
\* one entry to absence_log; either sets consecutive_high_intensity_days to
\* 0, saves, and changes nothing else in the document: no report is filed,
\* plan, problem_tasks, trends, dedication, burnout_risk and the other log
\* stay as they were, whether or not a plan exists.
C17_LogOnly ==
    [][ret'.op = "report" =>
       /\ \A date \in LogDates(today), was_absent \in BOOLEAN :
             Report(date, <<>>, <<>>, <<>>, was_absent, TRUE) =>
                /\ ret'.status = HolidayOk
                /\ GrewByOne(file.analytics.holidays_log,
                             file'.analytics.holidays_log, date)
                /\ file' = [file EXCEPT
                       !.analytics.holidays_log = file'.analytics.holidays_log,
                       !.analytics.consecutive_high_intensity_days = 0]
       /\ Report(Day(today), <<>>, <<>>, <<>>, TRUE, FALSE) =>
                /\ ret'.status = AbsenceOk
                /\ GrewByOne(file.analytics.absence_log,
                             file'.analytics.absence_log, Day(today))
                /\ file' = [file EXCEPT
                       !.analytics.absence_log = file'.analytics.absence_log,
                       !.analytics.consecutive_high_intensity_days = 0]]_vars

\* C17 witness: an absence has just been logged after a hectic plan was set,
\* the intensity streak is back to 0 and no report exists.
C17_Witness ==
    /\ ret.op = "report"
    /\ ret.status = AbsenceOk
    /\ \E d \in DOMAIN file.plan : file.plan[d].context = "hectic"
    /\ file.analytics.consecutive_high_intensity_days = 0
    /\ file.analytics.holidays_log = <<>>
    /\ DOMAIN file.reports = {}

\* C18: a normal report for a date that has no plan returns the "no plan"
\* error and leaves the document on disk exactly as it was.
C18_NoPlanNoChange ==
    [][\A date \in DateStrs \ DOMAIN file.plan, r \in ReportInputs :
          (/\ ret'.op = "report"
           /\ Report(date, r.completed, <<>>, r.skipped, FALSE, FALSE))
          => (ret'.status = "error" /\ file' = file)]_vars

\* C18 witness: a normal report with a skipped task was refused for a date
\* without a plan while another date has one, and nothing was counted.
C18_Witness ==
    /\ ret.op = "report"
    /\ ret.status = "error"
    /\ ret.out.date \notin DOMAIN file.plan
    /\ DOMAIN file.plan # {}
    /\ DOMAIN file.reports = {}
    /\ DOMAIN file.analytics.problem_tasks = {}

\* The grouping key of a task: the first space-delimited token of its name.
SkipKey(task) == task.name[1]

\* skip_count[k] on the document, 0 for a key it does not hold.
SkipCount(pt, k) == IF k \in DOMAIN pt THEN pt[k].skip_count ELSE 0

\* skip_count of the key of skipped[j] once skipped[1..j] are counted on pt.
CountAfter(pt, skipped, j) ==
    SkipCount(pt, SkipKey(skipped[j]))
    + Cardinality({i \in 1..j : SkipKey(skipped[i]) = SkipKey(skipped[j])})

\* alerts names, in order, the key of every skipped[j] whose count after its
\* increment is at least 3, and nothing else.
AlertsAre(alerts, pt, skipped) ==
    LET idx == {j \in 1..Len(skipped) : CountAfter(pt, skipped, j) >= 3}
    IN  /\ Len(alerts) = Cardinality(idx)
        /\ \E f \in [1..Len(alerts) -> idx] :
              /\ \A i, j \in 1..Len(alerts) : i < j => f[i] < f[j]
              /\ \A i \in 1..Len(alerts) : alerts[i] = SkipKey(skipped[f[i]])

\* C19: skip-pattern alerts are level-triggered.  A successful normal report
\* returns one alert for key k for each skipped task of key k whose
\* increment leaves skip_count[k] >= 3, in the order of the skipped list, and
\* no alert while skip_count[k] < 3: the third skip of a "Math" task alerts,
\* the fourth alerts again.  (Checked under SpecSkips.)
C19_LevelTriggered ==
    [][\A skipped \in SkipInputs :
          (/\ ret'.op = "report"
           /\ ret'.status = ReportOk
           /\ ReportCall(Day(0), <<>>, <<>>, skipped, FALSE, FALSE))
          => AlertsAre(ret'.out.triggered_patterns,
                       file.analytics.problem_tasks, skipped)]_vars

\* C19 witness: a report that skipped one task has alerted for "Math" with
\* skip_count["Math"] at 4, past the threshold.
C19_Witness ==
    /\ ret.op = "report"
    /\ ret.status = ReportOk
    /\ ret.out.triggered_patterns = <<"Math">>
    /\ Len(file.reports[ret.out.date].skipped) = 1
    /\ "Math" \in DOMAIN file.analytics.problem_tasks
    /\ file.analytics.problem_tasks["Math"].skip_count = 4

\* Every skip_count is the length of its skip_reasons.
CountsMatchReasons ==
    \A k \in DOMAIN file.analytics.problem_tasks :
        file.analytics.problem_tasks[k].skip_count
            = Len(file.analytics.problem_tasks[k].skip_reasons)

\* No key leaves problem_tasks, no skip_count decreases and every
\* skip_reasons keeps what it held as a prefix.
ProblemTasksGrow ==
    \A k \in DOMAIN file.analytics.problem_tasks :
        /\ k \in DOMAIN file'.analytics.problem_tasks
        /\ LET old == file.analytics.problem_tasks[k]
               new == file'.analytics.problem_tasks[k]
           IN  /\ new.skip_count >= old.skip_count
               /\ Len(new.skip_reasons) >= Len(old.skip_reasons)
               /\ SubSeq(new.skip_reasons, 1, Len(old.skip_reasons))
                     = old.skip_reasons

\* C20: problem_tasks only accumulates.  Across reports, plans, holidays and
\* recomputes no key is removed, no skip_count decreases, skip_reasons only
\* grows by appending, and skip_count[k] is the length of skip_reasons[k] in
\* every reachable state.  (Checked under SpecSkips.)
C20_Accumulates == []CountsMatchReasons /\ [][ProblemTasksGrow]_vars

\* C20 witness: with two keys counted, "Math" four times for two different
\* reasons, a recompute has just saved the document.
C20_Witness ==
    /\ ret.op = "get_analytics_context"
    /\ DOMAIN file.analytics.problem_tasks = {"Math", "Read"}
    /\ file.analytics.problem_tasks["Math"].skip_count = 4
    /\ \E i, j \in 1..4 :
          file.analytics.problem_tasks["Math"].skip_reasons[i]
             # file.analytics.problem_tasks["Math"].skip_reasons[j]

\* The sum of estimated_time over tasks[1..n].
RECURSIVE SumTimes(_, _)
SumTimes(tasks, n) ==
    IF n = 0 THEN 0 ELSE tasks[n].estimated_time + SumTimes(tasks, n - 1)

\* C21: set_daily_plan(date, tasks, context, ..) makes plan exactly
\* {date: new plan} with total_time the sum of estimated_time, sets
\* last_task_date to date and absence_counter to 0, makes
\* consecutive_high_intensity_days old + 1 when context is "hectic" or
\* total_time > 5 (5 itself is not intense) and 0 otherwise, and leaves every
\* other field of the document as it was.  (Checked under SpecPlan.)
C21_PlanFrame ==
    [][\A date \in DateStrs, tasks \in PlanTaskLists,
          context \in {"normal", "hectic"} :
          (/\ ret'.op = "set_daily_plan"
           /\ SetDailyPlanCall(date, tasks, context, "medium"))
          => LET total == SumTimes(tasks, Len(tasks))
                 old == file.analytics.consecutive_high_intensity_days
             IN  /\ DOMAIN file'.plan = {date}
                 /\ file'.plan[date].tasks = tasks
                 /\ file'.plan[date].context = context
                 /\ file'.plan[date].total_time = total
                 /\ file' = [file EXCEPT
                       !.plan = file'.plan,
                       !.analytics.last_task_date = date,
                       !.analytics.absence_counter = 0,
                       !.analytics.consecutive_high_intensity_days =
                           IF context = "hectic" \/ total > 5
                           THEN old + 1 ELSE 0]]_vars

\* C21 witness: a normal-context plan of exactly 5 hours has just been set:
\* the streak is 0, while a report, a skip count and a holiday are on file.
C21_Witness ==
    /\ ret.op = "set_daily_plan"
    /\ ret.out.total_time = 5
    /\ ret.out.context = "normal"
    /\ file.analytics.consecutive_high_intensity_days = 0
    /\ DOMAIN file.reports # {}
    /\ DOMAIN file.analytics.problem_tasks # {}
    /\ file.analytics.holidays_log # <<>>

\* The last call changed the document: a plan, a normal report, a holiday or
\* an absence.
Mutated(r) ==
    \/ r.op = "set_daily_plan"
    \/ r.op = "report" /\ r.status \in {ReportOk, HolidayOk, AbsenceOk}

HolidayWithin(a, days) ==
    /\ a.holidays_log # <<>>
    /\ today - ToDay(a.holidays_log[Len(a.holidays_log)].date) <= days

ClaimedPhaseTerm(phase) ==
    IF phase \in {"mid_semester", "late_semester", "finals_period",
                  "semester_break"} THEN 20
    ELSE IF phase = "early_semester" THEN -20
    ELSE 0

\* Twice the score of the claim before rounding, in hundredths, clamped to
\* [0, 2].
ClaimedScoreTwice(a) ==
    LET raw == 100 + (a.dedication_percentage - 70)
               + 2 * ClaimedPhaseTerm(a.semester_phase)
               - (IF HolidayWithin(a, 4) THEN 80 ELSE 0)
               + (IF a.burnout_risk \in {"high", "critical"} THEN 60 ELSE 0)
    IN  IF raw < 0 THEN 0 ELSE IF raw > 200 THEN 200 ELSE raw

\* C24: validate_day_off_request returns 0.5 + (dedication - 0.7) * 0.5 +
\* phase term + holiday term + burnout term, clamped to [0, 1] and rounded to
\* the nearest hundredth (dedication and burnout_risk being those recomputed
\* in that call): the score is in [0, 1], and dedication 0.7 with no phase,
\* no holiday and low risk gives 0.5.  (Checked under SpecAdvice.)
C24_Score ==
    [][(ret'.op = "validate_day_off_request" /\ ret'.status = "ok") =>
          LET a == update_full_analytics(file, today).analytics
              score == ret'.out.permissibility_score
              off == 2 * score - ClaimedScoreTwice(a)
          IN  /\ 0 <= score /\ score <= 100
              /\ off <= 1 /\ -off <= 1]_vars

\* C24 witness: dedication 0.7 with phase N/A, no holiday and low risk has
\* just been scored 0.5.
C24_Witness ==
    /\ ret.op = "validate_day_off_request"
    /\ ret.status = "ok"
    /\ ret.out.permissibility_score = 50
    /\ ret.out.reasons = <<"dedication">>
    /\ file.analytics.semester_phase = "N/A"
    /\ file.analytics.holidays_log = <<>>
    /\ file.analytics.dedication_percentage = 70
    /\ file.analytics.burnout_risk = "low"

\* C25 as claimed: no operation ever raises; check_readiness,
\* get_analytics_context, report and validate_day_off_request return a
\* structured result on every reachable document, also after a plan or a
\* holiday was stored under a date that is not a calendar date.
C25_Original == ret.status # "ValueError"

\* C26 as claimed: a date that is not a calendar date is refused, so that
\* last_task_date and the date of every holidays_log and absence_log entry
\* are calendar dates in every reachable state.
C26_Original ==
    /\ IsDate(file.analytics.last_task_date)
    /\ \A i \in DOMAIN file.analytics.holidays_log :
          IsDate(file.analytics.holidays_log[i].date)
    /\ \A i \in DOMAIN file.analytics.absence_log :
          IsDate(file.analytics.absence_log[i].date)

PhaseOp == "update_semester_phase"

\* C27: update_semester_phase with a phase outside the five valid ones
\* returns an error and leaves the document unchanged; with a valid phase it
\* changes semester_phase only; no other operation changes semester_phase,
\* which is therefore always a valid phase or the default "N/A".  (Checked
\* under SpecPhase.)
C27_PhaseOnlyByUpdate ==
    /\ [](file.analytics.semester_phase \in
            {"N/A", "early_semester", "mid_semester", "late_semester",
             "finals_period", "semester_break"})
    /\ [][/\ \A phase \in PhaseInputs :
                (ret'.op = PhaseOp /\ UpdateSemesterPhase(phase)) =>
                   IF phase \in {"early_semester", "mid_semester",
                                 "late_semester", "finals_period",
                                 "semester_break"}
                   THEN /\ ret'.status = "success"
                        /\ file' = [file EXCEPT !.analytics.semester_phase = phase]
                   ELSE /\ ret'.status = "error"
                        /\ file' = file
          /\ ret'.op # PhaseOp =>
                file'.analytics.semester_phase = file.analytics.semester_phase]_vars

\* C27 witness: an invalid phase has just been refused while the phase on
\* file is finals_period and a plan and a report are on file.
C27_Witness ==
    /\ ret.op = PhaseOp
    /\ ret.status = "error"
    /\ file.analytics.semester_phase = "finals_period"
    /\ DOMAIN file.plan # {}
    /\ DOMAIN file.reports # {}


\* C28 (as stated): a load on a missing, empty or unparseable file returns
\* the default document of the day (empty plan, reports and long-term tasks,
\* last_task_date today, dedication 0.7, absence counter 0, burnout risk low)
\* and persists it, so that the next load returns the same document and
\* writes nothing; a load on a file that parses returns its content and
\* writes nothing.  Stated on show_long_term_tasks, which loads and does
\* nothing else.  (Checked under SpecStore.)
C28_Original ==
    [][ret'.op = "show_long_term_tasks" =>
          IF file.kind = "json"
          THEN /\ ret' = show_long_term_tasks(load_data(file, today))
               /\ file' = file
          ELSE /\ ret'.status = "ok"
               /\ ret'.out.long_term_tasks = "none"
               /\ file'.kind = "json"
               /\ load_data(file', today) = get_default_data(today)
               /\ load_data(file', today).plan = EmptyMap
               /\ load_data(file', today).reports = EmptyMap
               /\ load_data(file', today).analytics.last_task_date = Day(today)
               /\ load_data(file', today).analytics.dedication_percentage = 70
               /\ load_data(file', today).analytics.absence_counter = 0
               /\ load_data(file', today).analytics.burnout_risk = "low"
               /\ load_saves(file', today) = file']_vars

\* C29 (as stated): a load returns a structurally valid document whatever
\* the file holds, so every operation can run on it: no operation ends in a
\* KeyError for a section or a sub-field that is not there.  (Checked under
\* SpecStore.)
C29_Original ==
    ret.op \in {"show_long_term_tasks", "check_readiness_for_planning",
                "report", "set_daily_plan"}
        => ret.status # "KeyError"

\* The document a saving call of SpecStore hands to _save_data().
SavedDocument(op) ==
    IF op = "set_daily_plan"
    THEN set_daily_plan(with_plan(load_data(file, today)), Day(today),
                        <<Task(<<"Math", "hw">>, 2)>>, "normal", "medium")
    ELSE report_holiday(load_data(file, today), Day(today), today)

IsPrefix(old, new) ==
    /\ Len(old) <= Len(new)
    /\ SubSeq(new, 1, Len(old)) = old

\* C31: history is append-only.  No step removes a date from reports, the
\* report of a date changes only in a successful normal report for that same
\* date, and absence_log and holidays_log before a step are prefixes of the
\* logs after it.  (Checked under SpecHistory.)
C31_AppendOnly ==
    [][/\ DOMAIN file.reports \subseteq DOMAIN file'.reports
       /\ \A d \in DOMAIN file.reports :
             file'.reports[d] # file.reports[d] =>
                /\ ret'.op = "report"
                /\ ret'.status = ReportOk
                /\ ret'.out.date = d
       /\ IsPrefix(file.analytics.absence_log, file'.analytics.absence_log)
       /\ IsPrefix(file.analytics.holidays_log, file'.analytics.holidays_log)]_vars

\* C31 witness: the report for day 1 has just been filed a second time (both
\* skips of "Math" come from it) next to the report for day 0, with a
\* holiday and an absence in the logs and a plan set after them.
C31_Witness ==
    /\ ret.op = "report"
    /\ ret.status = ReportOk
    /\ ret.out.date = Day(1)
    /\ Day(0) \in DOMAIN file.reports
    /\ file.reports[Day(0)].skipped = <<>>
    /\ "Math" \in DOMAIN file.analytics.problem_tasks
    /\ file.analytics.problem_tasks["Math"].skip_count = 2
    /\ Len(file.analytics.holidays_log) = 1
    /\ Len(file.analytics.absence_log) = 1

\* C32: the engine only round-trips long_term_tasks.  No tool but
\* edit_long_term_tasks changes the long_term_tasks on file (check_readiness,
\* report in every branch, set_daily_plan, get_analytics_context,
\* update_semester_phase, validate_day_off_request, show_long_term_tasks,
\* which returns them as they are), and edit_long_term_tasks stores the dict
\* it is given and changes nothing else.  (Checked under SpecFrame.)
C32_LongTermFrame ==
    [][/\ ret'.op # "edit_long_term_tasks" =>
             file'.long_term_tasks = file.long_term_tasks
       /\ ret'.op = "show_long_term_tasks" =>
             /\ ret'.out.long_term_tasks = file.long_term_tasks
             /\ file' = file
       /\ \A new_tasks \in LongTermInputs :
             (ret'.op = "edit_long_term_tasks" /\ EditLongTermTasks(new_tasks)) =>
                /\ file' = [file EXCEPT !.long_term_tasks = new_tasks]
                /\ ret'.out.long_term_tasks = new_tasks]_vars

\* C32 witness: a normal report has just been saved while long_term_tasks
\* holds what a caller stored, the phase was updated and a plan is on file.
C32_Witness ==
    /\ ret.op = "report"
    /\ ret.status = ReportOk
    /\ file.long_term_tasks = "thesis and exam"
    /\ file.analytics.semester_phase = "finals_period"
    /\ DOMAIN file.plan # {}
    /\ DOMAIN file.reports # {}

\* The document with the change of call made to it on day now.
WithChange(call, data, now) ==
    IF call.tool = "report"
    THEN [data EXCEPT
             !.analytics.holidays_log = Append(@, log_entry(call.date, now)),
             !.analytics.consecutive_high_intensity_days = 0]
    ELSE IF call.tool = "update_semester_phase"
    THEN [data EXCEPT !.analytics.semester_phase = call.phase]
    ELSE [data EXCEPT !.long_term_tasks = call.tasks]

\* C33: mutating calls are load-modify-save without a lock, and the last
\* write wins.  When a process saves, the file becomes the copy that process
\* loaded with its own change and nothing else, whatever was written to the
\* file since it loaded; so a call that runs with no write between its load
\* and its save (calls run one at a time) keeps every earlier update, and a
\* call that overlaps another one overwrites it.  The witness is the
\* interleaving in which both calls return success and the update of one is
\* not on file.  (Checked under SpecRace.)
C33_LastWriteWins ==
    [][\A p \in Procs :
          (ret[p].pc = "loaded" /\ ret'[p].pc = "done"
              /\ race_writes(ret[p].call)) =>
             /\ file' = WithChange(ret[p].call, ret[p].data, today)
             /\ ret'[p].result.status \in {HolidayOk, "success", "ok"}
             /\ ret[p].data = file =>
                   file' = WithChange(ret[p].call, file, today)]_vars

\* C33 witness: process 1 logged a holiday and process 2 updated the phase,
\* both returned success, and the file holds the phase but no holiday: the
\* holiday that process 1 saved has been overwritten.
C33_Witness ==
    /\ ret[1].pc = "done"
    /\ ret[1].call.tool = "report"
    /\ ret[1].result.status = HolidayOk
    /\ Len(ret[1].data.analytics.holidays_log) = 1
    /\ ret[2].pc = "done"
    /\ ret[2].call.tool = "update_semester_phase"
    /\ ret[2].result.status = "success"
    /\ file.analytics.semester_phase = ret[2].call.phase
    /\ file.analytics.holidays_log = <<>>

\* The document on file with the absence_counter that step 1 of a recompute
\* produces on this day.
WithFreshAbsence ==
    [file EXCEPT !.analytics.absence_counter = FreshAbsence]

\* C34 as claimed: the steps of a recompute read the outputs of the earlier
\* steps of that same recompute.  The new_dedication a normal report returns
\* is computed with consistency_score = max(0, 1 - 0.2 * a), a being the
\* absence_counter step 1 of that recompute produced, and the burnout_risk
\* it saves is computed from the trend, the dedication and the
\* absence_counter of that same recompute.
C34_Original ==
    (ret.op = "report" /\ ret.status = ReportOk
        /\ IsDate(file.analytics.last_task_date)) =>
        LET dedication == calculate_dedication_percentage(WithFreshAbsence, today)
        IN  /\ ret.out.new_dedication = dedication
            /\ file.analytics.burnout_risk =
                  calculate_burnout_risk(
                     [WithFreshAbsence EXCEPT
                         !.analytics.dedication_percentage = dedication])

\* Some holiday of analytics a is dated today or at most days days earlier.
AnyHolidayWithin(a, days) ==
    \E i \in DOMAIN a.holidays_log :
        /\ 0 <= today - ToDay(a.holidays_log[i].date)
        /\ today - ToDay(a.holidays_log[i].date) <= days

\* C35 as claimed: the recency override looks at every logged holiday.  The
\* READY recommendation is PROCEED_NORMALLY whenever some entry of
\* holidays_log is dated within the last 2 days, also when it is not the
\* entry appended last, and a holiday dated after today does not trigger the
\* override: the recommendation then follows burnout_risk and the streak.
\* (Checked under SpecHoliday.)
C35_Original ==
    [][(ret'.op = CheckOp /\ ret'.status = "READY") =>
          LET a == update_full_analytics(file, today).analytics
          IN  ret'.out.rest_or_light_day =
                 IF AnyHolidayWithin(a, 2) THEN "PROCEED_NORMALLY"
                 ELSE IF a.burnout_risk = "critical" THEN "MANDATORY_REST"
                 ELSE IF a.burnout_risk = "high" THEN "RECOMMENDED_REST"
                 ELSE IF a.burnout_risk = "medium"
                         \/ a.consecutive_high_intensity_days >= 3
                      THEN "RECOMMENDED_LIGHT_DAY"
                 ELSE "PROCEED_NORMALLY"]_vars

\* C36: consecutive_high_intensity_days is never negative and changes only
\* through set_daily_plan (one more for an intense plan, 0 for any other)
\* and through a holiday or an absence log (0): a normal report, a
\* recompute (get_analytics_context, check_readiness,
\* validate_day_off_request), update_semester_phase and the tools of
\* long_term_tasks leave it as it was.  (Checked under SpecFrame.)
C36_StreakFrame ==
    /\ [](file.analytics.consecutive_high_intensity_days >= 0)
    /\ [][LET old == file.analytics.consecutive_high_intensity_days
              new == file'.analytics.consecutive_high_intensity_days
          IN  /\ ret'.op = "set_daily_plan" =>
                    new = IF ret'.out.context = "hectic" \/ ret'.out.total_time > 5
                          THEN old + 1 ELSE 0
              /\ (ret'.op = "report" /\ ret'.status \in {HolidayOk, AbsenceOk}) =>
                    new = 0
              /\ (/\ ret'.op # "set_daily_plan"
                  /\ ~(ret'.op = "report" /\ ret'.status \in {HolidayOk, AbsenceOk}))
                    => new = old]_vars

\* C36 witness: a normal report has just been saved and the streak of the
\* hectic plan it reports on is still 1, after the phase and the long-term
\* tasks were changed.
C36_Witness ==
    /\ ret.op = "report"
    /\ ret.status = ReportOk
    /\ file.analytics.consecutive_high_intensity_days = 1
    /\ file.analytics.semester_phase = "finals_period"
    /\ file.long_term_tasks = "thesis"

\* C37 as claimed: a plan is immutable once it was reported against.  In
\* every reachable state, for every date that is a key of both plan and
\* reports, the stored completion_rate is the number of completed names over
\* the number of tasks of the plan on file for that date (0 for a plan
\* without tasks), also after a further set_daily_plan or report.
C37_Original ==
    \A d \in DOMAIN file.plan \cap DOMAIN file.reports :
        file.reports[d].completion_rate =
            IF Len(file.plan[d].tasks) = 0 THEN 0
            ELSE RoundHalfEven(100 * Len(file.reports[d].completed),
                               Len(file.plan[d].tasks))

\* C38: logging a holiday or an absence does not clear the gate.  When
\* check_readiness answers BLOCKED on d, it gives the same answer after a
\* holiday or an absence was logged for any date, d included; with the day
\* unchanged its answer stops being BLOCKED on d only through a successful
\* normal report for d or through set_daily_plan.  (Checked under
\* SpecBlock.)
C38_LogKeepsBlock ==
    [][GateStatus(file, today) = "BLOCKED" =>
          LET d == check_readiness_for_planning(file, today).out.unreported_date
              after == check_readiness_for_planning(file', today')
          IN  /\ (ret'.op = "report" /\ ret'.status \in {HolidayOk, AbsenceOk}) =>
                    after = check_readiness_for_planning(file, today)
              /\ (/\ today' = today
                  /\ \/ after.status # "BLOCKED"
                     \/ after.out.unreported_date # d) =>
                    \/ /\ ret'.op = "report"
                       /\ ret'.status = ReportOk
                       /\ ret'.out.date = d
                    \/ ret'.op = "set_daily_plan"]_vars

\* C38 witness: an absence has just been logged for the date the gate
\* blocks on, after a holiday was logged for it, and the gate still answers
\* BLOCKED on that date.
C38_Witness ==
    /\ ret.op = "report"
    /\ ret.status = AbsenceOk
    /\ GateStatus(file, today) = "BLOCKED"
    /\ ret.out.date =
          check_readiness_for_planning(file, today).out.unreported_date
    /\ Len(file.analytics.holidays_log) = 1
    /\ file.analytics.holidays_log[1].date = ret.out.date

\* C39: every set_daily_plan call with an intense plan adds exactly 1 to
\* consecutive_high_intensity_days, whether its date is the date of the plan
\* it replaces or another one: the counter counts intense calls since the
\* last reset and can exceed the number of dates planned.  (Checked under
\* SpecPlan.)
C39_CountsCalls ==
    [][\A date \in DateStrs, tasks \in PlanTaskLists,
          context \in {"normal", "hectic"} :
          (/\ ret'.op = "set_daily_plan"
           /\ SetDailyPlanCall(date, tasks, context, "medium")
           /\ context = "hectic" \/ total_time(tasks) > 5) =>
             /\ file'.analytics.consecutive_high_intensity_days =
                   file.analytics.consecutive_high_intensity_days + 1
             /\ DOMAIN file'.plan = {date}]_vars

\* C39 witness: on day 0 the counter stands at MaxStreak after as many
\* intense plans, more than there are dates to plan for, and the last plan
\* replaced a plan for its own date.
C39_Witness ==
    /\ ret.op = "set_daily_plan"
    /\ today = 0
    /\ file.analytics.consecutive_high_intensity_days = MaxStreak
    /\ MaxStreak > Cardinality(DateStrs)
    /\ DOMAIN file.plan = {Day(0)}
    /\ file.reports = EmptyMap
    /\ file.analytics.holidays_log = <<>>

\* The keys the skipped tasks of SpecHistory have, and one they have not.
HistoryKeys == {"Math", "Read"}

\* The number of entries with key k in skipped.
SkipsOf(skipped, k) ==
    Cardinality({i \in DOMAIN skipped : SkipKey(skipped[i]) = k})

\* The number of skipped entries with key k in the reports stored in data.
StoredSkips(data, k) ==
    Cardinality({di \in (DOMAIN data.reports) \X (1..MaxTasks) :
                    /\ di[2] <= Len(data.reports[di[1]].skipped)
                    /\ SkipKey(data.reports[di[1]].skipped[di[2]]) = k})

\* What skip_count[k] counts beyond the stored reports.
SkipSurplus(data, k) ==
    SkipCount(data.analytics.problem_tasks, k) - StoredSkips(data, k)

\* C40: reporting a date again replaces its report but does not undo the
\* skip counts of the report it replaces.  skip_count[k] is always at least
\* the number of skipped entries with key k in the stored reports; what it
\* counts beyond them changes only when a date is reported again, and then
\* grows by the skips of k in the replaced report, so that the two are equal
\* as long as no date was reported twice.  (Checked under SpecHistory.)
C40_SkipsNotUndone ==
    /\ [](\A k \in HistoryKeys : SkipSurplus(file, k) >= 0)
    /\ [][\A k \in HistoryKeys :
             SkipSurplus(file', k) =
                SkipSurplus(file, k)
                + (IF /\ ret'.op = "report"
                      /\ ret'.status = ReportOk
                      /\ ret'.out.date \in DOMAIN file.reports
                   THEN SkipsOf(file.reports[ret'.out.date].skipped, k)
                   ELSE 0)]_vars

\* C40 witness: the report for day 1 has just replaced one that skipped
\* "Math": skip_count is 2, the stored reports of day 0 and day 1 hold one
\* such skip between them.
C40_Witness ==
    /\ ret.op = "report"
    /\ ret.status = ReportOk
    /\ ret.out.date = Day(1)
    /\ Day(0) \in DOMAIN file.reports
    /\ SkipCount(file.analytics.problem_tasks, "Math") = 2
    /\ StoredSkips(file, "Math") = 1
    /\ file.reports[Day(1)].skipped = <<>>
====
